---- MODULE Spec2Model ----
(***************************************************************************)
(* Reconciliation engine of the pole mapper: identifier normalisation,     *)
(* node filtering, route assembly (automatic, manual, QC), span-length      *)
(* tolerance merge, output ordering and section selection.                  *)
(*                                                                         *)
(* Text is modelled as a sequence of one-character strings, so that the     *)
(* normalisers work on the characters as the Python code does.              *)
(* Span lengths are fixed-point numbers in tenths of a foot.                *)
(***************************************************************************)
EXTENDS Integers, Sequences, FiniteSets, TLC

(***************************************************************************)
(* Bounds of the model                                                     *)
(***************************************************************************)
MaxNodes == 3
MaxConns == 3
MaxQC == 2
MaxRoutes == 2
MaxSections == 3

\* rows of a pole's attachment sheet
MaxAttach == 5

\* characters of an identifier text
MaxScidLen == 4

(***************************************************************************)
(* Characters and text                                                     *)
(***************************************************************************)
DigitChars == <<"0", "1", "2", "3", "4", "5", "6", "7", "8", "9">>

IsDigit(c) == \E i \in 1..10 : DigitChars[i] = c

DigitVal(c) == (CHOOSE i \in 1..10 : DigitChars[i] = c) - 1

LowerChars ==
    <<"a", "b", "c", "d", "e", "f", "g", "h", "i", "j", "k", "l", "m",
      "n", "o", "p", "q", "r", "s", "t", "u", "v", "w", "x", "y", "z">>

UpperChars ==
    <<"A", "B", "C", "D", "E", "F", "G", "H", "I", "J", "K", "L", "M",
      "N", "O", "P", "Q", "R", "S", "T", "U", "V", "W", "X", "Y", "Z">>

IsLower(c) == \E i \in 1..Len(LowerChars) : LowerChars[i] = c

IsUpper(c) == \E i \in 1..Len(UpperChars) : UpperChars[i] = c

IsAlpha(c) == IsLower(c) \/ IsUpper(c)

IsSpace(c) == c = " "

\* str.upper() on one character
UpperChar(c) ==
    IF IsLower(c) THEN UpperChars[CHOOSE i \in 1..Len(LowerChars) : LowerChars[i] = c]
    ELSE c

\* str.upper()
Upper(s) == [i \in 1..Len(s) |-> UpperChar(s[i])]

\* str.lower() on one character
LowerChar(c) ==
    IF IsUpper(c) THEN LowerChars[CHOOSE i \in 1..Len(UpperChars) : UpperChars[i] = c]
    ELSE c

\* str.lower()
Lower(s) == [i \in 1..Len(s) |-> LowerChar(s[i])]

\* code point order of the characters of the model's alphabet
CharOrd(c) ==
    IF c = " " THEN 32
    ELSE IF c = "'" THEN 39
    ELSE IF IsDigit(c) THEN 48 + DigitVal(c)
    ELSE IF IsUpper(c) THEN 64 + (CHOOSE i \in 1..Len(UpperChars) : UpperChars[i] = c)
    ELSE IF IsLower(c) THEN 96 + (CHOOSE i \in 1..Len(LowerChars) : LowerChars[i] = c)
    ELSE 127

RECURSIVE LStrip(_)
LStrip(s) == IF s # <<>> /\ IsSpace(s[1]) THEN LStrip(Tail(s)) ELSE s

RECURSIVE RStrip(_)
RStrip(s) ==
    IF s # <<>> /\ IsSpace(s[Len(s)]) THEN RStrip(SubSeq(s, 1, Len(s) - 1)) ELSE s

\* str.strip()
Strip(s) == RStrip(LStrip(s))

\* length of the longest prefix of s made of characters satisfying the class
RECURSIVE DigitPrefixLen(_)
DigitPrefixLen(s) ==
    IF s # <<>> /\ IsDigit(s[1]) THEN 1 + DigitPrefixLen(Tail(s)) ELSE 0

RECURSIVE AlphaPrefixLen(_)
AlphaPrefixLen(s) ==
    IF s # <<>> /\ IsAlpha(s[1]) THEN 1 + AlphaPrefixLen(Tail(s)) ELSE 0

Drop(s, n) == SubSeq(s, n + 1, Len(s))

Take(s, n) == SubSeq(s, 1, n)

\* str.isdigit()
IsDigitStr(s) == s # <<>> /\ \A i \in 1..Len(s) : IsDigit(s[i])

\* int(digits)
RECURSIVE ToInt(_)
ToInt(ds) ==
    IF ds = <<>> THEN 0
    ELSE 10 * ToInt(SubSeq(ds, 1, Len(ds) - 1)) + DigitVal(ds[Len(ds)])

\* str(int(digits)): the digit run without its leading zeros
RECURSIVE StrInt(_)
StrInt(ds) ==
    IF Len(ds) > 1 /\ ds[1] = "0" THEN StrInt(Tail(ds)) ELSE ds

\* str.split(): the maximal runs of non-blank characters
RECURSIVE WordLen(_)
WordLen(u) == IF u # <<>> /\ ~IsSpace(u[1]) THEN 1 + WordLen(Tail(u)) ELSE 0

RECURSIVE Split(_)
Split(s) ==
    LET t == LStrip(s)
    IN IF t = <<>> THEN <<>>
       ELSE <<Take(t, WordLen(t))>> \o Split(Drop(t, WordLen(t)))

\* ' '.join(parts)
RECURSIVE Join(_)
Join(parts) ==
    IF parts = <<>> THEN <<>>
    ELSE IF Len(parts) = 1 THEN parts[1]
    ELSE parts[1] \o <<" ">> \o Join(Tail(parts))

\* re.sub(r'\s+', ' ', s).strip()
CollapseSpaces(s) == Join(Split(s))

\* \w of the regular expressions
IsWordChar(c) == IsDigit(c) \/ IsAlpha(c) \/ c = "_"

IsWordAt(s, p) == p >= 1 /\ p <= Len(s) /\ IsWordChar(s[p])

\* \b between the characters at positions p and p + 1
WordBoundary(s, p) == IsWordAt(s, p) # IsWordAt(s, p + 1)

\* r'\b' + re.escape(kw) + r'\b' matches s at position i, ignoring case
KeywordMatchAt(s, kw, i) ==
    /\ i + Len(kw) - 1 <= Len(s)
    /\ \A k \in 1..Len(kw) : UpperChar(s[i + k - 1]) = UpperChar(kw[k])
    /\ WordBoundary(s, i - 1)
    /\ WordBoundary(s, i + Len(kw) - 1)

\* re.sub(pattern, '', s, flags=re.IGNORECASE): every non-overlapping match,
\* leftmost first, is removed
RECURSIVE RemoveKeywordFrom(_, _, _)
RemoveKeywordFrom(s, kw, i) ==
    IF i > Len(s) THEN <<>>
    ELSE IF KeywordMatchAt(s, kw, i) THEN RemoveKeywordFrom(s, kw, i + Len(kw))
    ELSE <<s[i]>> \o RemoveKeywordFrom(s, kw, i + 1)

\* the loop over the ignore keywords (utils.py 38-43, qc_reader.py 187-192)
RECURSIVE RemoveKeywords(_, _)
RemoveKeywords(s, keywords) ==
    IF keywords = <<>> THEN s
    ELSE LET kw == Strip(keywords[1])
             t == IF kw # <<>> THEN Strip(RemoveKeywordFrom(s, kw, 1)) ELSE s
         IN RemoveKeywords(t, Tail(keywords))

(***************************************************************************)
(* Utils.normalize_scid, Utils.extract_numeric_part                        *)
(***************************************************************************)
\* ^0*(\d+)([A-Za-z]*)$
IsSimpleScid(s) ==
    LET d == DigitPrefixLen(s)
    IN d >= 1 /\ AlphaPrefixLen(Drop(s, d)) = Len(s) - d

NormalizeSimple(s) ==
    LET d == DigitPrefixLen(s)
    IN StrInt(Take(s, d)) \o Upper(Drop(s, d))

\* one blank-separated part of a compound identifier (utils.py 61-75)
NormalizePart(part) ==
    LET a == AlphaPrefixLen(part)
        d == DigitPrefixLen(Drop(part, a))
        rest == Drop(part, a + d)
    IN IF IsDigitStr(part) THEN StrInt(part)
       ELSE IF d >= 1 /\ AlphaPrefixLen(rest) = Len(rest)
            THEN Upper(Take(part, a)) \o StrInt(SubSeq(part, a + 1, a + d)) \o Upper(rest)
       ELSE Upper(part)

\* the leading apostrophe Excel adds is removed (utils.py 32-33)
StripApostrophe(scid_str) ==
    IF scid_str # <<>> /\ scid_str[1] = "'" THEN Tail(scid_str) ELSE scid_str

\* utils.py 50-77 on the text left after the keywords are removed
NormalizeCleaned(scid_str) ==
    IF IsSimpleScid(scid_str) THEN NormalizeSimple(scid_str)
    ELSE Join([i \in 1..Len(Split(scid_str)) |-> NormalizePart(Split(scid_str)[i])])

normalize_scid(scid, ignore_keywords) ==
    IF scid = <<>> THEN scid
    ELSE IF ignore_keywords # <<>>
    THEN NormalizeCleaned(CollapseSpaces(
             RemoveKeywords(StripApostrophe(Strip(scid)), ignore_keywords)))
    ELSE NormalizeCleaned(StripApostrophe(Strip(scid)))

\* float('inf') of the sort key
Inf == -1

\* re.match(r'(\d+)([A-Za-z]*)', scid): (number, letters) or (inf, '')
extract_numeric_part(scid) ==
    LET d == DigitPrefixLen(scid)
        a == AlphaPrefixLen(Drop(scid, d))
    IN IF d >= 1 THEN <<ToInt(Take(scid, d)), SubSeq(scid, d + 1, d + a)>>
       ELSE <<Inf, <<>>>>

\* Python's order on text: by code point, a proper prefix first
RECURSIVE TextLess(_, _)
TextLess(a, b) ==
    IF b = <<>> THEN FALSE
    ELSE IF a = <<>> THEN TRUE
    ELSE IF a[1] # b[1] THEN CharOrd(a[1]) < CharOrd(b[1])
    ELSE TextLess(Tail(a), Tail(b))

\* Python's order on the sort keys (tuples compare field by field)
KeyLess(k1, k2) ==
    IF k1[1] # k2[1]
    THEN (k1[1] # Inf /\ (k2[1] = Inf \/ k1[1] < k2[1]))
    ELSE TextLess(k1[2], k2[2])

(***************************************************************************)
(* QCReader._normalize_scid                                                *)
(***************************************************************************)
\* the identifier token \d+[A-Za-z]* at the start of s, normalised
LeadingScid(s) ==
    LET d == DigitPrefixLen(s)
        a == AlphaPrefixLen(Drop(s, d))
    IN StrInt(Take(s, d)) \o Upper(SubSeq(s, d + 1, d + a))

\* what follows the identifier token at the start of s
AfterLeadingScid(s) ==
    LET d == DigitPrefixLen(s)
    IN Drop(s, d + AlphaPrefixLen(Drop(s, d)))

\* the strategies of _normalize_scid on the stripped text (scid) and on the
\* text without the ignore keywords (scid_cleaned)
QCNormalizePatterns(scid, scid_cleaned) ==
       IF scid = <<>> THEN scid
       ELSE IF IsDigitStr(scid) THEN StrInt(scid)
       ELSE IF IsDigitStr(scid_cleaned) THEN StrInt(scid_cleaned)
       \* Pattern 1: ^(\d+[A-Za-z]*)(?:\s+.*)?$ on the cleaned text
       ELSE IF /\ DigitPrefixLen(scid_cleaned) >= 1
               /\ \/ AfterLeadingScid(scid_cleaned) = <<>>
                  \/ IsSpace(AfterLeadingScid(scid_cleaned)[1])
            THEN LeadingScid(scid_cleaned)
       \* Strategy 3: ^(\d+[A-Za-z]*)\s+.* on the text as given
       ELSE IF /\ DigitPrefixLen(scid) >= 1
               /\ AfterLeadingScid(scid) # <<>>
               /\ IsSpace(AfterLeadingScid(scid)[1])
            THEN LeadingScid(scid)
       \* Pattern 3: ^(\d+)([A-Za-z]*)$ on the cleaned text
       ELSE IF IsSimpleScid(scid_cleaned) THEN NormalizeSimple(scid_cleaned)
       \* Pattern 4: the first blank-separated part
       ELSE IF Split(scid_cleaned) # <<>> /\ IsSimpleScid(Split(scid_cleaned)[1])
            THEN NormalizeSimple(Split(scid_cleaned)[1])
       ELSE scid_cleaned

QC_normalize_scid(raw, keywords) ==
    QCNormalizePatterns(Strip(raw), CollapseSpaces(RemoveKeywords(Strip(raw), keywords)))

(***************************************************************************)
(* Span lengths.  A span text is a record: form "empty" is '', form "num"  *)
(* is a decimal number as read from a sheet ("105.4"), form "ft" is whole  *)
(* feet with the ' suffix ("105'").  val is the number in tenths of a foot.*)
(* Form "inf" is the text 'inf', which float() reads as infinity.          *)
(***************************************************************************)
EmptySpan == [form |-> "empty", val |-> 0]

InfSpan == [form |-> "inf", val |-> 0]

NumSpan(tenths) == [form |-> "num", val |-> tenths]

FtSpan(feet) == [form |-> "ft", val |-> 10 * feet]

\* Python's round(float) of a value given in tenths: to the nearest whole
\* number, a tie (exactly .5) to the even one
PyRound(tenths) ==
    LET f == tenths \div 10
        d == tenths % 10
    IN IF d < 5 THEN f
       ELSE IF d > 5 THEN f + 1
       ELSE IF f % 2 = 0 THEN f ELSE f + 1

\* float(span_distance) raises for the text with the ' suffix, which is then
\* returned as it is
format_span_distance(span_distance) ==
    IF span_distance.form = "empty" THEN EmptySpan
    ELSE IF span_distance.form = "num" THEN FtSpan(PyRound(span_distance.val))
    ELSE span_distance

\* _format_span_distance raises: round(float('inf')) is an OverflowError,
\* which 'except (ValueError, TypeError)' lets through
format_span_raises(span_distance) == span_distance.form = "inf"

Abs(x) == IF x < 0 THEN -x ELSE x

\* tolerance is in feet; commas and quotes are removed before float()
apply_span_length_tolerance(excel_span, qc_span, tolerance) ==
    IF qc_span.form = "empty" \/ excel_span.form = "empty"
    THEN (IF excel_span.form # "empty" THEN excel_span ELSE qc_span)
    ELSE IF excel_span.form = "inf" \/ qc_span.form = "inf" THEN excel_span
    ELSE IF Abs(excel_span.val - qc_span.val) <= 10 * tolerance THEN qc_span
    ELSE excel_span

(***************************************************************************)
(* Sheets.  A node row is [node_id, scid, node_type, pole_status]; a       *)
(* connection row is [node_id_1, node_id_2, connection_id, span_distance]. *)
(* All cells are text (the sheets are read with dtype=str).                *)
(***************************************************************************)
\* .strip().lower() on the cell texts the model uses
StripLower(t) ==
    IF t = "Reference " THEN "reference"
    ELSE IF t = "Underground" THEN "underground"
    ELSE IF t = "Pole" THEN "pole"
    ELSE t

\* config.get('ignore_scid_keywords', [])
ignore_scid_keywords == <<>>

\* the positions of a sequence that satisfy Keep, in order
RECURSIVE KeptFrom(_, _)
KeptFrom(keep, i) ==
    IF i > Len(keep) THEN <<>>
    ELSE (IF keep[i] THEN <<i>> ELSE <<>>) \o KeptFrom(keep, i + 1)

\* keep is a sequence of booleans, one per position
KeptPositions(keep) == KeptFrom(keep, 1)

\* nodes_df['scid'].apply(normalize_scid)
NormalizeNodes(nodes) ==
    [i \in 1..Len(nodes) |->
        [nodes[i] EXCEPT !.scid = normalize_scid(@, ignore_scid_keywords)]]

\* nodes_df.drop_duplicates(subset='scid'): the first row of each scid is kept
drop_duplicates(nodes) ==
    LET First(i) == \A j \in 1..(i - 1) : nodes[j].scid # nodes[i].scid
        kept == KeptPositions([i \in 1..Len(nodes) |-> First(i)])
    IN [k \in 1..Len(kept) |-> nodes[kept[k]]]

IsValidNode(node) ==
    /\ StripLower(node.node_type) \in {"pole", "reference"}
    /\ StripLower(node.pole_status) # "underground"

\* a filter that keeps underground poles
filter_any_status(nodes) ==
    LET kept == KeptPositions([i \in 1..Len(nodes) |->
                    StripLower(nodes[i].node_type) \in {"pole", "reference"}])
    IN [k \in 1..Len(kept) |-> nodes[kept[k]]]

filter_valid_nodes(nodes) ==
    LET kept == KeptPositions([i \in 1..Len(nodes) |-> IsValidNode(nodes[i])])
    IN [k \in 1..Len(kept) |-> nodes[kept[k]]]

\* the dictionaries of _create_mappings, as functions
create_mappings(nodes, filtered) ==
    [ node_id_to_scid |->
        [id \in {nodes[i].node_id : i \in 1..Len(nodes)} |->
            nodes[CHOOSE i \in 1..Len(nodes) : nodes[i].node_id = id].scid],
      scid_to_row |->
        [sc \in {nodes[i].scid : i \in 1..Len(nodes)} |->
            nodes[CHOOSE i \in 1..Len(nodes) : nodes[i].scid = sc]],
      node_id_to_row |->
        [id \in {nodes[i].node_id : i \in 1..Len(nodes)} |->
            nodes[CHOOSE i \in 1..Len(nodes) : nodes[i].node_id = id]],
      valid_poles |-> {filtered[i].node_id : i \in 1..Len(filtered)} ]

NoMappings ==
    [node_id_to_scid |-> <<>>, scid_to_row |-> <<>>, node_id_to_row |-> <<>>,
     valid_poles |-> {}]

\* node_type of a node id, '' when the id has no row
NodeTypeOf(mappings, id) ==
    IF id \in DOMAIN mappings.node_id_to_row
    THEN StripLower(mappings.node_id_to_row[id].node_type)
    ELSE ""

(***************************************************************************)
(* QCReader                                                                *)
(***************************************************************************)
\* a QC sheet row is [Pole, To_Pole, Span_Length]; rows with an empty Pole or
\* To Pole are skipped
QCRowKept(row) == Strip(row.Pole) # <<>> /\ Strip(row.To_Pole) # <<>>

InactiveQC ==
    [active |-> FALSE, connections |-> {}, ordered_connections |-> <<>>,
     original_ordered_connections |-> <<>>, qc_data_rows |-> <<>>, qc_scids |-> {}]

\* the state load_qc_file leaves in the reader for the rows of the sheets
\* the reader's fields for the kept rows, their stripped pairs (orig) and
\* their normalised pairs (norm); both directions of a pair are connections
QCReaderState(sheet_rows, kept, orig, norm) ==
    [active |-> {norm[k] : k \in 1..Len(norm)} # {},
     connections |-> {norm[k] : k \in 1..Len(norm)}
                        \cup {<<norm[k][2], norm[k][1]>> : k \in 1..Len(norm)},
     ordered_connections |-> norm,
     original_ordered_connections |-> orig,
     qc_data_rows |-> [k \in 1..Len(kept) |->
                         [Pole |-> orig[k][1], To_Pole |-> orig[k][2],
                          Span_Length |-> sheet_rows[kept[k]].Span_Length]],
     qc_scids |-> {norm[k][1] : k \in 1..Len(norm)} \cup {norm[k][2] : k \in 1..Len(norm)}]

\* the loop over the sheet rows at the kept positions
QCLoadKept(sheet_rows, kept) ==
    QCReaderState(sheet_rows, kept,
        [k \in 1..Len(kept) |->
            <<Strip(sheet_rows[kept[k]].Pole), Strip(sheet_rows[kept[k]].To_Pole)>>],
        [k \in 1..Len(kept) |->
            <<QC_normalize_scid(Strip(sheet_rows[kept[k]].Pole), ignore_scid_keywords),
              QC_normalize_scid(Strip(sheet_rows[kept[k]].To_Pole), ignore_scid_keywords)>>])

load_qc_file(sheet_rows) ==
    QCLoadKept(sheet_rows,
        KeptPositions([i \in 1..Len(sheet_rows) |-> QCRowKept(sheet_rows[i])]))

\* a QC file is [exists, readable, sheets]; a sheet is [kind, rows]: a "table"
\* has the columns Pole and To Pole under one of the header rows tried, an
\* "other" sheet has not (skipped), reading a "broken" sheet raises (skipped)
QCSheetProcessed(sheet) == sheet.kind = "table"

\* all_connections and all_data_rows: the rows of the processed sheets, in
\* workbook order
RECURSIVE AllSheetRows(_)
AllSheetRows(sheets) ==
    IF sheets = <<>> THEN <<>>
    ELSE (IF QCSheetProcessed(Head(sheets)) THEN Head(sheets).rows ELSE <<>>)
             \o AllSheetRows(Tail(sheets))

\* sheets_processed
SheetsProcessed(file) == Len(SelectSeq(file.sheets, QCSheetProcessed))

\* load_qc_file fails: the file is missing, the workbook cannot be opened
\* (the outer except) or no sheet was processed
QCLoadFails(file) == ~file.exists \/ ~file.readable \/ SheetsProcessed(file) = 0

\* a load that appends to the reader's collections without clearing them
load_without_clearing(reader, file) ==
    IF QCLoadFails(file)
    THEN [reader EXCEPT !.active = FALSE]
    ELSE load_qc_file(reader.qc_data_rows \o AllSheetRows(file.sheets))

\* load_qc_file called on a reader that already exists: a failing call only
\* clears _active; any other call clears the five collections and refills them
load_qc_file_again(reader, file) ==
    IF QCLoadFails(file)
    THEN [reader EXCEPT !.active = FALSE]
    ELSE load_qc_file(AllSheetRows(file.sheets))

\* the span of the first QC row whose normalised pair is the normalised
\* (from, to); '' when that row has no span or no row matches
QCSpanOfPair(qc, from_normalized, to_normalized) ==
    LET hits == {i \in 1..Len(qc.ordered_connections) :
                    qc.ordered_connections[i] = <<from_normalized, to_normalized>>}
        first == CHOOSE i \in hits : \A j \in hits : i <= j
    IN IF ~qc.active \/ hits = {} THEN EmptySpan
       ELSE IF first <= Len(qc.qc_data_rows) THEN qc.qc_data_rows[first].Span_Length
       ELSE EmptySpan

get_qc_span_length(qc, from_scid_excel, to_scid_excel) ==
    QCSpanOfPair(qc, QC_normalize_scid(from_scid_excel, ignore_scid_keywords),
                     QC_normalize_scid(to_scid_excel, ignore_scid_keywords))

(***************************************************************************)
(* PoleDataProcessor: rows                                                 *)
(***************************************************************************)
\* config.get('processing_options', {}).get('span_length_tolerance', 3)
span_length_tolerance == 3

\* what _create_output_row returns after 'except Exception'
None == [none |-> TRUE]

\* lines 449-713 given the final span: the row, or None when
\* _format_span_distance raises inside the try block
OutputRowOfSpan(pole_scid, to_pole_scid, final_span_str) ==
    IF format_span_raises(final_span_str) THEN None
    ELSE [Pole |-> pole_scid, To_Pole |-> to_pole_scid,
          Span_Length |-> format_span_distance(final_span_str)]

\* the Pole, To Pole and Span Length of the row _create_output_row builds
create_output_row(pole_scid, to_pole_scid, conn_info, qc) ==
    OutputRowOfSpan(pole_scid, to_pole_scid,
        IF qc.active
        THEN apply_span_length_tolerance(conn_info.span_distance,
                 get_qc_span_length(qc, pole_scid, to_pole_scid),
                 span_length_tolerance)
        ELSE conn_info.span_distance)

\* 'if row_data: result_data.append(row_data)' on an empty result_data
Appended(row_data) == IF row_data = None THEN <<>> ELSE <<row_data>>

ConnInfo(conn) ==
    [connection_id |-> conn.connection_id, span_distance |-> conn.span_distance]

\* rows that always keep the endpoint order of the connection row
UnswappedRow(conn, mappings, qc) ==
    LET scid1 == mappings.node_id_to_scid[conn.node_id_1]
        scid2 == mappings.node_id_to_scid[conn.node_id_2]
    IN IF "pole" \in {NodeTypeOf(mappings, conn.node_id_1), NodeTypeOf(mappings, conn.node_id_2)}
       THEN Appended(create_output_row(scid1, scid2, ConnInfo(conn), qc))
       ELSE <<>>

\* the row(s) _process_standard_connections adds for one connection row
StandardRow(conn, mappings, qc) ==
    LET n1 == conn.node_id_1
        n2 == conn.node_id_2
        scid1 == mappings.node_id_to_scid[n1]
        scid2 == mappings.node_id_to_scid[n2]
        node1_type == NodeTypeOf(mappings, n1)
        node2_type == NodeTypeOf(mappings, n2)
    IN IF node1_type = "pole" /\ node2_type = "reference"
       THEN Appended(create_output_row(scid1, scid2, ConnInfo(conn), qc))
       ELSE IF node1_type = "reference" /\ node2_type = "pole"
       THEN Appended(create_output_row(scid2, scid1, ConnInfo(conn), qc))
       ELSE IF node1_type = "pole" /\ node2_type = "pole"
       THEN Appended(create_output_row(scid1, scid2, ConnInfo(conn), qc))
       ELSE <<>>

\* a key that keeps the endpoint order
ordered_key(a, b) == <<a, b>>

\* tuple(sorted([n1, n2])): the unordered pair
connection_key(a, b) == {a, b}

RECURSIVE StandardLoop(_, _, _, _, _)
StandardLoop(conns, mappings, qc, i, processed_connections) ==
    IF i > Len(conns) THEN <<>>
    ELSE LET conn == conns[i]
             key == connection_key(conn.node_id_1, conn.node_id_2)
         IN IF /\ conn.node_id_1 \in mappings.valid_poles
               /\ conn.node_id_2 \in mappings.valid_poles
               /\ key \notin processed_connections
            THEN StandardRow(conn, mappings, qc)
                   \o StandardLoop(conns, mappings, qc, i + 1, processed_connections \cup {key})
            ELSE StandardLoop(conns, mappings, qc, i + 1, processed_connections)

process_standard_connections(connections, mappings, qc) ==
    StandardLoop(connections, mappings, qc, 1, {})

(***************************************************************************)
(* PoleDataProcessor: temporary pole records and manual routes             *)
(***************************************************************************)
\* dict[key] = value
Put(dict, key, value) ==
    [k \in (DOMAIN dict) \cup {key} |-> IF k = key THEN value ELSE dict[k]]

\* temp[scid].update({'To Pole': to_scid, **conn_info})
UpdateTemp(temp, scid, to_scid, conn_info) ==
    [temp EXCEPT ![scid] = [@ EXCEPT !.To_Pole = to_scid,
                                     !.connection_id = conn_info.connection_id,
                                     !.span_distance = conn_info.span_distance]]

\* clear_existing_routes as the worker passes it
clear_existing_routes == FALSE

\* the loop of _process_excel_connections over the rows from i on;
\* st is [temp, connection_data, processed]
RECURSIVE ExcelLoop(_, _, _, _)
ExcelLoop(conns, mappings, i, st) ==
    IF i > Len(conns) THEN st
    ELSE LET n1 == conns[i].node_id_1
             n2 == conns[i].node_id_2
             key == connection_key(n1, n2)
         IN IF n1 \in mappings.valid_poles /\ n2 \in mappings.valid_poles
               /\ key \notin st.processed
            THEN LET scid1 == mappings.node_id_to_scid[n1]
                     scid2 == mappings.node_id_to_scid[n2]
                     node1_type == NodeTypeOf(mappings, n1)
                     node2_type == NodeTypeOf(mappings, n2)
                     conn_info == ConnInfo(conns[i])
                     temp2 ==
                         IF clear_existing_routes THEN st.temp
                         ELSE IF node1_type = "reference" /\ node2_type = "pole"
                         THEN UpdateTemp(st.temp, scid2, scid1, conn_info)
                         ELSE UpdateTemp(st.temp, scid1, scid2, conn_info)
                 IN ExcelLoop(conns, mappings, i + 1,
                        [temp |-> temp2,
                         connection_data |->
                             Put(st.connection_data, connection_key(scid1, scid2), conn_info),
                         processed |-> st.processed \cup {key}])
            ELSE ExcelLoop(conns, mappings, i + 1, st)

process_excel_connections(conns, mappings, temp) ==
    LET st == ExcelLoop(conns, mappings, 1,
                  [temp |-> temp, connection_data |-> <<>>, processed |-> {}])
    IN [st EXCEPT !.temp =
            IF clear_existing_routes
            THEN [sc \in DOMAIN st.temp |-> [st.temp[sc] EXCEPT !.To_Pole = <<>>]]
            ELSE st.temp]

\* RouteParser.parse_manual_routes on the comma separated poles of each segment
parse_manual_routes(segments) ==
    LET kept == KeptPositions([i \in 1..Len(segments) |-> Len(segments[i]) >= 2])
    IN [k \in 1..Len(kept) |->
          LET poles == [j \in 1..Len(segments[kept[k]]) |->
                           normalize_scid(Strip(segments[kept[k]][j]), ignore_scid_keywords)]
          IN [poles |-> poles,
              connections |-> [j \in 1..(Len(poles) - 1) |-> <<poles[j], poles[j + 1]>>]]]

\* the (from, to) connections of all routes, in route order
RECURSIVE RouteConnections(_)
RouteConnections(manual_routes) ==
    IF manual_routes = <<>> THEN <<>>
    ELSE Head(manual_routes).connections \o RouteConnections(Tail(manual_routes))

\* the list `missing` of _apply_manual_routes
MissingConnections(manual_routes, temp, connection_data) ==
    SelectSeq(RouteConnections(manual_routes),
        LAMBDA c : \/ c[1] \notin DOMAIN temp
                   \/ c[2] \notin DOMAIN temp
                   \/ connection_key(c[1], c[2]) \notin DOMAIN connection_data)

\* an error is its text and the connections the text lists
NoError == [text |-> "", listed |-> <<>>]

\* the local msg of _apply_manual_routes
ManualRouteMsg(missing) ==
    [text |-> "The following manual-route connections are invalid or missing:",
     listed |-> missing]

\* raise ValueError("Invalid manual routes detected")
InvalidManualRoutes ==
    [text |-> "Invalid manual routes detected", listed |-> <<>>]

RECURSIVE ApplyRouteConnections(_, _, _)
ApplyRouteConnections(connections, temp, connection_data) ==
    IF connections = <<>> THEN temp
    ELSE LET c == Head(connections)
         IN ApplyRouteConnections(Tail(connections),
                UpdateTemp(temp, c[1], c[2], connection_data[connection_key(c[1], c[2])]),
                connection_data)

RECURSIVE ApplyRoutes(_, _, _)
ApplyRoutes(manual_routes, temp, connection_data) ==
    IF manual_routes = <<>> THEN temp
    ELSE LET route == Head(manual_routes)
             applied == ApplyRouteConnections(route.connections, temp, connection_data)
             last_pole == route.poles[Len(route.poles)]
             dead_end == IF last_pole \in DOMAIN applied
                         THEN [applied EXCEPT ![last_pole].To_Pole = <<>>]
                         ELSE applied
         IN ApplyRoutes(Tail(manual_routes), dead_end, connection_data)

\* the routes listed before the first route with a missing connection
RECURSIVE RoutesBeforeInvalid(_, _, _)
RoutesBeforeInvalid(manual_routes, temp, connection_data) ==
    IF manual_routes = <<>> THEN <<>>
    ELSE IF MissingConnections(<<Head(manual_routes)>>, temp, connection_data) # <<>>
    THEN <<>>
    ELSE <<Head(manual_routes)>>
            \o RoutesBeforeInvalid(Tail(manual_routes), temp, connection_data)

\* an application that checks each route as it comes to it
apply_routes_as_checked(manual_routes, temp, connection_data) ==
    IF MissingConnections(manual_routes, temp, connection_data) # <<>>
    THEN [error |-> InvalidManualRoutes,
          temp |-> ApplyRoutes(RoutesBeforeInvalid(manual_routes, temp, connection_data),
                               temp, connection_data)]
    ELSE [error |-> NoError, temp |-> ApplyRoutes(manual_routes, temp, connection_data)]

\* _apply_manual_routes: the error raised, or the pole records after the routes
apply_manual_routes(manual_routes, temp, connection_data) ==
    LET missing == MissingConnections(manual_routes, temp, connection_data)
    IN IF missing # <<>>
       THEN [error |-> InvalidManualRoutes, temp |-> temp]
       ELSE [error |-> NoError,
             temp |-> ApplyRoutes(manual_routes, temp, connection_data)]

\* _build_temp_rows
build_temp_rows(conns, mappings, manual_routes, qc) ==
    LET init == [sc \in {mappings.node_id_to_scid[id] : id \in mappings.valid_poles} |->
                    [Pole |-> sc, To_Pole |-> <<>>, connection_id |-> "",
                     span_distance |-> EmptySpan]]
        excel == IF qc.active
                 THEN [temp |-> init, connection_data |-> <<>>, processed |-> {}]
                 ELSE process_excel_connections(conns, mappings, init)
    IN IF manual_routes # <<>> /\ ~qc.active
       THEN apply_manual_routes(manual_routes, excel.temp, excel.connection_data)
       ELSE [error |-> NoError, temp |-> excel.temp]

(***************************************************************************)
(* PoleDataProcessor: QC reconciliation                                    *)
(***************************************************************************)
\* mappings['node_id_to_scid'].get(n, n)
ScidOrId(mappings, n) ==
    IF n \in DOMAIN mappings.node_id_to_scid THEN mappings.node_id_to_scid[n] ELSE n

\* connection_lookup.get(key): the last connection row whose two nodes are
\* known and whose SCIDs are the pair; found is FALSE when there is none
connection_lookup(conns, mappings, key) ==
    LET hits == {i \in 1..Len(conns) :
                    /\ conns[i].node_id_1 \in DOMAIN mappings.node_id_to_scid
                    /\ conns[i].node_id_2 \in DOMAIN mappings.node_id_to_scid
                    /\ connection_key(mappings.node_id_to_scid[conns[i].node_id_1],
                                      mappings.node_id_to_scid[conns[i].node_id_2]) = key}
        last == CHOOSE i \in hits : \A j \in hits : j <= i
    IN IF hits = {} THEN [found |-> FALSE, conn_info |-> ConnInfo([connection_id |-> "", span_distance |-> EmptySpan])]
       ELSE [found |-> TRUE, conn_info |-> ConnInfo(conns[last])]

\* the value span_distance has after a loop that assigns it at every row
\* where match is TRUE and stops at the first assigned value that is not empty
LoopSpan(conns, match) ==
    LET full == {i \in 1..Len(conns) : match[i] /\ conns[i].span_distance.form # "empty"}
    IN IF full = {} THEN EmptySpan
       ELSE conns[CHOOSE i \in full : \A j \in full : i <= j].span_distance

extract_base_scid(scid) ==
    LET t == Strip(scid)
    IN IF DigitPrefixLen(t) > 0 THEN Take(t, DigitPrefixLen(t)) ELSE scid

\* the span the fallback searches find for a QC pair without a looked-up connection
FallbackSpan(conns, mappings, qc_pole_norm, qc_to_pole_norm) ==
    LET Direct(i) ==
            LET n1 == conns[i].node_id_1
                n2 == conns[i].node_id_2
                scid1 == ScidOrId(mappings, n1)
                scid2 == ScidOrId(mappings, n2)
            IN \/ scid1 = qc_pole_norm /\ scid2 = qc_to_pole_norm
               \/ scid1 = qc_to_pole_norm /\ scid2 = qc_pole_norm
               \/ n1 = qc_pole_norm /\ n2 = qc_to_pole_norm
               \/ n1 = qc_to_pole_norm /\ n2 = qc_pole_norm
        Base(i) ==
            LET scid1_base == extract_base_scid(ScidOrId(mappings, conns[i].node_id_1))
                scid2_base == extract_base_scid(ScidOrId(mappings, conns[i].node_id_2))
                qc_pole_base == extract_base_scid(qc_pole_norm)
                qc_to_pole_base == extract_base_scid(qc_to_pole_norm)
            IN \/ scid1_base = qc_pole_base /\ scid2_base = qc_to_pole_base
               \/ scid1_base = qc_to_pole_base /\ scid2_base = qc_pole_base
        direct == LoopSpan(conns, [i \in 1..Len(conns) |-> Direct(i)])
    IN IF direct.form # "empty" THEN direct ELSE LoopSpan(conns, [i \in 1..Len(conns) |-> Base(i)])

\* _create_qc_output_row: the standard row with the literal QC texts, merged
\* once more with the QC span
QCMergedRow(pole_orig, to_pole_orig, row_data, qc_span, qc) ==
    [Pole |-> pole_orig, To_Pole |-> to_pole_orig,
     Span_Length |->
        IF qc.active /\ qc_span.form # "empty"
        THEN apply_span_length_tolerance(row_data.Span_Length, qc_span,
                                         span_length_tolerance)
        ELSE row_data.Span_Length]

\* what stands for a row when building it raised out of the function
Raised == [raised |-> TRUE]

\* lines 1981-2014: the minimal row, whose Span Length is formatted outside
\* any try block
MinimalQCRow(pole_orig, to_pole_orig, conn_info) ==
    IF format_span_raises(conn_info.span_distance) THEN Raised
    ELSE [Pole |-> pole_orig, To_Pole |-> to_pole_orig,
          Span_Length |-> format_span_distance(conn_info.span_distance)]

\* 'if row_data: ... else: ...' of _create_qc_output_row
QCRowOrMinimal(pole_orig, to_pole_orig, row_data, conn_info, qc) ==
    IF row_data = None THEN MinimalQCRow(pole_orig, to_pole_orig, conn_info)
    ELSE QCMergedRow(pole_orig, to_pole_orig, row_data,
                     get_qc_span_length(qc, pole_orig, to_pole_orig), qc)

create_qc_output_row(pole_orig, to_pole_orig, pole_norm, to_pole_norm, conn_info, qc) ==
    QCRowOrMinimal(pole_orig, to_pole_orig,
                   create_output_row(pole_norm, to_pole_norm, conn_info, qc),
                   conn_info, qc)

\* the row of the i-th QC pair
\* the row of a QC pair given what connection_lookup.get found for it
QCRowLooked(conns, mappings, qc, orig, norm, looked) ==
    create_qc_output_row(orig[1], orig[2], norm[1], norm[2],
        IF looked.found THEN looked.conn_info
        ELSE [connection_id |-> "",
              span_distance |-> FallbackSpan(conns, mappings, norm[1], norm[2])],
        qc)

QCRow(conns, mappings, qc, i) ==
    QCRowLooked(conns, mappings, qc,
        qc.original_ordered_connections[i], qc.ordered_connections[i],
        connection_lookup(conns, mappings,
            connection_key(qc.ordered_connections[i][1], qc.ordered_connections[i][2])))

process_qc_filtered_connections(conns, mappings, qc) ==
    [i \in 1..Len(qc.original_ordered_connections) |-> QCRow(conns, mappings, qc, i)]

\* building the row of some QC pair raised: the exception leaves
\* _process_qc_filtered_connections and process_data
QCConnectionsRaise(produced) == \E i \in 1..Len(produced) : produced[i] = Raised

(***************************************************************************)
(* Sorting and writing                                                     *)
(***************************************************************************)
\* one step of a stable sort: row goes after every row whose key is not greater
RECURSIVE InsertRow(_, _)
InsertRow(sorted, row) ==
    IF sorted = <<>> THEN <<row>>
    ELSE IF KeyLess(extract_numeric_part(row.Pole), extract_numeric_part(Head(sorted).Pole))
    THEN <<row>> \o sorted
    ELSE <<Head(sorted)>> \o InsertRow(Tail(sorted), row)

\* sorted(rows, key=lambda x: Utils.extract_numeric_part(x.get('Pole', '')))
RECURSIVE SortByPole(_)
SortByPole(rows) ==
    IF rows = <<>> THEN <<>>
    ELSE InsertRow(SortByPole(SubSeq(rows, 1, Len(rows) - 1)), rows[Len(rows)])

\* the final tolerance check of PoleDataProcessor.write_output on one row
FinalTolerance(row_data, qc) ==
    LET qc_span == get_qc_span_length(qc, row_data.Pole, row_data.To_Pole)
        excel_span == row_data.Span_Length
    IN IF row_data.Pole # <<>> /\ row_data.To_Pole # <<>>
          /\ qc_span.form # "empty" /\ excel_span.form # "empty"
       THEN [row_data EXCEPT !.Span_Length =
                apply_span_length_tolerance(excel_span, qc_span, span_length_tolerance)]
       ELSE row_data

\* the rows PoleDataProcessor.write_output writes to the sheet
pdp_write_output(rows, qc) ==
    IF qc.active THEN [i \in 1..Len(rows) |-> FinalTolerance(rows[i], qc)]
    ELSE SortByPole(rows)

\* the rows OutputGenerator.write_output writes to the sheet
og_write_output(rows) ==
    SortByPole(SelectSeq(rows, LAMBDA row : row.Pole # <<>>))

(***************************************************************************)
(* ConnectionProcessor                                                     *)
(***************************************************************************)
\* the tuple _process_standard_connections appends for one connection row
CPStandardTuple(conn, mappings) ==
    LET scid1 == mappings.node_id_to_scid[conn.node_id_1]
        scid2 == mappings.node_id_to_scid[conn.node_id_2]
        node1_type == NodeTypeOf(mappings, conn.node_id_1)
        node2_type == NodeTypeOf(mappings, conn.node_id_2)
    IN IF node1_type = "pole" /\ node2_type = "reference"
       THEN <<[Pole |-> scid1, To_Pole |-> scid2, conn_info |-> ConnInfo(conn)]>>
       ELSE IF node1_type = "reference" /\ node2_type = "pole"
       THEN <<[Pole |-> scid2, To_Pole |-> scid1, conn_info |-> ConnInfo(conn)]>>
       ELSE IF node1_type = "pole" /\ node2_type = "pole"
       THEN <<[Pole |-> scid1, To_Pole |-> scid2, conn_info |-> ConnInfo(conn)]>>
       ELSE <<>>

RECURSIVE CPStandardLoop(_, _, _, _)
CPStandardLoop(conns, mappings, i, processed_connections) ==
    IF i > Len(conns) THEN <<>>
    ELSE LET key == connection_key(conns[i].node_id_1, conns[i].node_id_2)
         IN IF /\ conns[i].node_id_1 \in mappings.valid_poles
               /\ conns[i].node_id_2 \in mappings.valid_poles
               /\ key \notin processed_connections
            THEN CPStandardTuple(conns[i], mappings)
                   \o CPStandardLoop(conns, mappings, i + 1, processed_connections \cup {key})
            ELSE CPStandardLoop(conns, mappings, i + 1, processed_connections)

\* the tuple(s) ConnectionProcessor._process_qc_filtered_connections appends
\* for the i-th QC pair: none when neither a connection nor a node is known
CPQCTuple(conns, mappings, qc, i) ==
    LET qc_pole_norm == qc.ordered_connections[i][1]
        qc_to_pole_norm == qc.ordered_connections[i][2]
        looked == connection_lookup(conns, mappings,
                      connection_key(qc_pole_norm, qc_to_pole_norm))
        orig == qc.original_ordered_connections[i]
    IN IF looked.found
       THEN <<[Pole |-> orig[1], To_Pole |-> orig[2], conn_info |-> looked.conn_info]>>
       ELSE IF \/ qc_pole_norm \in DOMAIN mappings.scid_to_row
               \/ qc_to_pole_norm \in DOMAIN mappings.scid_to_row
       THEN <<[Pole |-> orig[1], To_Pole |-> orig[2],
               conn_info |-> [connection_id |-> "", span_distance |-> EmptySpan]]>>
       ELSE <<>>

RECURSIVE CPQCLoop(_, _, _, _)
CPQCLoop(conns, mappings, qc, i) ==
    IF i > Len(qc.original_ordered_connections) THEN <<>>
    ELSE CPQCTuple(conns, mappings, qc, i) \o CPQCLoop(conns, mappings, qc, i + 1)

\* ConnectionProcessor.process_connections
process_connections(conns, mappings, qc) ==
    IF qc.active THEN CPQCLoop(conns, mappings, qc, 1)
    ELSE CPStandardLoop(conns, mappings, 1, {})

(***************************************************************************)
(* PoleDataProcessor._find_section                                         *)
(* A sections sheet is [has_pole_cols, rows]; has_pole_cols tells whether  *)
(* the sheet has the optional 'pole' and 'to_pole' columns.  A row is      *)
(* [connection_id, pole, to_pole, heights], heights being the cells of the *)
(* POA_*HT columns.  A height cell is [kind, feet, inches]: kind "ftin" is *)
(* text like 24'6", "int" a whole number of inches (in the inches field),  *)
(* "text" any other text, "empty" an empty cell.                           *)
(***************************************************************************)
\* Utils.parse_height_decimal, in hundredths of a foot; ok is FALSE for None
parse_height_decimal(cell) ==
    IF cell.kind = "ftin"
    THEN [ok |-> TRUE, value |-> 100 * cell.feet + ((100 * cell.inches + 6) \div 12)]
    ELSE IF cell.kind = "int"
    THEN [ok |-> TRUE, value |-> (100 * cell.inches + 6) \div 12]
    ELSE [ok |-> FALSE, value |-> 0]

\* min(row_heights) if row_heights else float('inf')
MinHeight(row) ==
    LET row_heights == {parse_height_decimal(row.heights[k]).value :
                           k \in {j \in 1..Len(row.heights) :
                                     parse_height_decimal(row.heights[j]).ok}}
    IN IF row_heights = {} THEN Inf
       ELSE CHOOSE h \in row_heights : \A g \in row_heights : h <= g

\* a < b on heights where Inf is float('inf')
HeightLess(a, b) == a # Inf /\ (b = Inf \/ a < b)

\* the position in the sheet of the row _find_section returns, 0 for None
find_section(connection_id, sections, pole_scid, to_pole_scid) ==
    LET rows == sections.rows
        by_id == KeptPositions([i \in 1..Len(rows) |->
                     rows[i].connection_id = connection_id])
        matching ==
            IF pole_scid # <<>> /\ to_pole_scid # <<>> /\ by_id # <<>>
               /\ sections.has_pole_cols
            THEN SelectSeq(by_id, LAMBDA i : rows[i].pole = pole_scid
                                             /\ rows[i].to_pole = to_pole_scid)
            ELSE by_id
        min_heights == [k \in 1..Len(matching) |-> MinHeight(rows[matching[k]])]
        \* min_heights.index(min(min_heights))
        min_idx == CHOOSE k \in 1..Len(matching) :
                      /\ \A j \in 1..Len(matching) : ~HeightLess(min_heights[j], min_heights[k])
                      /\ \A j \in 1..(k - 1) : min_heights[j] # min_heights[k]
    IN IF rows = <<>> \/ matching = <<>> THEN 0
       ELSE IF Len(matching) = 1 THEN matching[1]
       ELSE IF \E k \in 1..Len(matching) : min_heights[k] # Inf THEN matching[min_idx]
       ELSE matching[1]

\* a scan that takes every connection row, touching the pole or not
every_connection_id(connections, pole_node_id) ==
    [i \in 1..Len(connections) |-> connections[i].connection_id]

\* lines 470-479: the connection ids of the connection rows that have the
\* pole's node id at either end, in sheet order
potential_connection_ids(connections, pole_node_id) ==
    [k \in 1..Len(KeptPositions([i \in 1..Len(connections) |->
                      pole_node_id \in {Strip(connections[i].node_id_1),
                                        Strip(connections[i].node_id_2)}])) |->
        connections[KeptPositions([i \in 1..Len(connections) |->
                      pole_node_id \in {Strip(connections[i].node_id_1),
                                        Strip(connections[i].node_id_2)}])[k]].connection_id]

\* lines 482-488: the section of the first of the connection ids that has one
RECURSIVE FirstSection(_, _, _, _, _)
FirstSection(conn_ids, i, sections, pole_scid, to_pole_scid) ==
    IF i > Len(conn_ids) THEN 0
    ELSE IF find_section(conn_ids[i], sections, pole_scid, to_pole_scid) # 0
    THEN find_section(conn_ids[i], sections, pole_scid, to_pole_scid)
    ELSE FirstSection(conn_ids, i + 1, sections, pole_scid, to_pole_scid)

\* lines 466-494: the retry when the edge's own connection id has no section
AlternativeSection(sections, connections, pole_node_id, pole_scid, to_pole_scid) ==
    IF sections.rows # <<>> /\ pole_node_id # <<>>
    THEN FirstSection(potential_connection_ids(connections, pole_node_id), 1, sections,
                      pole_scid, to_pole_scid)
    ELSE 0

\* what _create_output_row takes the midspan fields of the row from: the
\* section row at position, found by the own connection id or by the retry,
\* and its height cells; position 0 is the empty section, no midspan field
RowSection(position, via) ==
    [position |-> position, via |-> IF position = 0 THEN "none" ELSE via]

\* lines 461-498 of _create_output_row
section_of_row(connection_id, sections, connections, pole_node_id, pole_scid, to_pole_scid) ==
    IF find_section(connection_id, sections, pole_scid, to_pole_scid) # 0
    THEN RowSection(find_section(connection_id, sections, pole_scid, to_pole_scid), "own")
    ELSE RowSection(AlternativeSection(sections, connections, pole_node_id, pole_scid,
                                       to_pole_scid), "alternative")

\* lines 918-930: the midspan heights of the row are the POA_*HT cells of
\* its section, none for the empty section
MidspanCells(sections, position) ==
    IF position = 0 THEN <<>> ELSE sections.rows[position].heights

(***************************************************************************)
(* Attachments of a pole.  A row of the pole's attachment sheet is         *)
(* [company, measured, height_in_inches]; a height cell is [kind, tenths]: *)
(* kind "num" is a number of inches given in tenths of an inch, "blank" an *)
(* empty cell, "text" a text that is not a number.  A display height is    *)
(* [shown, feet, inches]: the text F' I", or '' when shown is FALSE.       *)
(***************************************************************************)
NoDisplay == [shown |-> FALSE, feet |-> 0, inches |-> 0]

Display(feet, inches) == [shown |-> TRUE, feet |-> feet, inches |-> inches]

\* Utils.inches_to_feet_format(str(int(height))): whole inches as F' I"
inches_to_feet_whole(total_inches) ==
    IF total_inches < 0 THEN NoDisplay
    ELSE Display(total_inches \div 12, total_inches % 12)

\* config["power_company"].strip().lower() is 'consumers energy'; the
\* pattern \bconsumers energy\b on the stripped, lowered company cell
CompanyIsPower(company) == company \in {"Consumers Energy", " CONSUMERS ENERGY"}

\* the stripped, lowered measured cell contains one of config["power_keywords"]
MeasuredIsPower(measured) == measured \in {"Primary", "Neutral", "Power Guy Riser"}

\* a comm keyword is in the lowered measured cell or the lowered company cell
IsComm(company, measured) ==
    \/ measured \in {"CATV Com", "Telco Com", "Power Guy Riser"}
    \/ company \in {"Fiber Optic Com Co"}

\* pd.to_numeric(..., errors='coerce') is a number
IsNumeric(height) == height.kind = "num"

\* the rows find_power_attachment keeps: power company, power keyword, a number
PowerRows(rows) ==
    SelectSeq(rows, LAMBDA row : /\ CompanyIsPower(row.company)
                                 /\ MeasuredIsPower(row.measured)
                                 /\ IsNumeric(row.height_in_inches))

\* power_rows.loc[power_rows['height_numeric'].idxmin()]: the first lowest row
FirstLowest(power_rows) ==
    power_rows[CHOOSE i \in 1..Len(power_rows) :
                  /\ \A j \in 1..Len(power_rows) :
                        power_rows[i].height_in_inches.tenths
                            <= power_rows[j].height_in_inches.tenths
                  /\ \A j \in 1..(i - 1) :
                        power_rows[j].height_in_inches.tenths
                            # power_rows[i].height_in_inches.tenths]

\* AttachmentDataReader.find_power_attachment: the list power_heights of
\* _process_attachments, holding the one attachment returned, or nothing
find_power_attachment(rows) ==
    IF PowerRows(rows) = <<>> THEN <<>>
    ELSE <<[height |-> FirstLowest(PowerRows(rows)).height_in_inches.tenths,
            formatted |-> inches_to_feet_whole(
                FirstLowest(PowerRows(rows)).height_in_inches.tenths \div 10)]>>

\* abs(height_decimal - existing_height) < 0.01, the heights in feet
HeightExists(pool, tenths) ==
    \E k \in 1..Len(pool) : Abs(pool[k].height - tenths) * 100 < 120

\* the entry of all_telecom_attachments for a row
CommEntry(row) ==
    [height |-> row.height_in_inches.tenths,
     formatted |-> inches_to_feet_whole(row.height_in_inches.tenths \div 10),
     info |-> <<row.company, row.measured>>]

\* the loop of _process_attachments over the rows of the sheet
RECURSIVE CommLoop(_, _, _)
CommLoop(rows, i, pool) ==
    IF i > Len(rows) THEN pool
    ELSE IF /\ IsComm(rows[i].company, rows[i].measured)
            /\ IsNumeric(rows[i].height_in_inches)
            /\ rows[i].height_in_inches.tenths > 0
            /\ ~HeightExists(pool, rows[i].height_in_inches.tenths)
    THEN CommLoop(rows, i + 1, Append(pool, CommEntry(rows[i])))
    ELSE CommLoop(rows, i + 1, pool)

\* all_telecom_attachments
all_telecom_attachments(rows) == CommLoop(rows, 1, <<>>)

\* list.sort(key=lambda x: x[0], reverse=True): descending, equal keys keep
\* their order
RECURSIVE InsertDescending(_, _)
InsertDescending(sorted, entry) ==
    IF sorted = <<>> THEN <<entry>>
    ELSE IF Head(sorted).height < entry.height THEN <<entry>> \o sorted
    ELSE <<Head(sorted)>> \o InsertDescending(Tail(sorted), entry)

\* the entries left in sheet order
SheetOrder(entries) == entries

RECURSIVE SortDescending(_)
SortDescending(entries) ==
    IF entries = <<>> THEN <<>>
    ELSE InsertDescending(SortDescending(SubSeq(entries, 1, Len(entries) - 1)),
                          entries[Len(entries)])

\* the entries _assign_comm_attachments keeps: those with provider text, and
\* of these the ones naming a comm keyword when there is any
FilterTelecom(telecom_data) ==
    IF SelectSeq(telecom_data, LAMBDA x : IsComm(x.info[1], x.info[2])) # <<>>
    THEN SelectSeq(telecom_data, LAMBDA x : IsComm(x.info[1], x.info[2]))
    ELSE SelectSeq(telecom_data, LAMBDA x : x.info # <<"", "">>)

\* _assign_comm_attachments on attachment data: the slots comm1..comm4 that
\* are mapped, the summary and the count
assign_comm_attachments(telecom_data, mapped_comms) ==
    [comm |-> [k \in mapped_comms |->
                  IF k <= Len(SortDescending(FilterTelecom(telecom_data)))
                  THEN SortDescending(FilterTelecom(telecom_data))[k].formatted
                  ELSE NoDisplay],
     All_Comm_Heights |-> SortDescending(FilterTelecom(telecom_data)),
     Total_Comm_Count |-> Len(SortDescending(FilterTelecom(telecom_data)))]

\* the first entry of the lowest height: min(entries, key=lambda x: x[0])
MinEntry(entries) ==
    entries[CHOOSE i \in 1..Len(entries) :
               /\ \A j \in 1..Len(entries) : entries[i].height <= entries[j].height
               /\ \A j \in 1..(i - 1) : entries[j].height # entries[i].height]

\* max(telecom_heights) if telecom_heights else 0
MinThreshold(telecom_heights) ==
    IF telecom_heights = <<>> THEN 0
    ELSE CHOOSE h \in {telecom_heights[k] : k \in 1..Len(telecom_heights)} :
            \A k \in 1..Len(telecom_heights) : telecom_heights[k] <= h

\* _calculate_power_heights: the value of 'Power Height'
calculate_power_heights(power_heights, telecom_heights) ==
    IF power_heights = <<>> THEN NoDisplay
    ELSE IF SelectSeq(power_heights,
                LAMBDA x : x.height >= MinThreshold(telecom_heights)) # <<>>
    THEN MinEntry(SelectSeq(power_heights,
                LAMBDA x : x.height >= MinThreshold(telecom_heights))).formatted
    ELSE MinEntry(power_heights).formatted

\* the attachment fields _process_attachments returns for a pole
process_attachments(rows, mapped_comms) ==
    [Power_Height |->
        calculate_power_heights(find_power_attachment(rows),
            [k \in 1..Len(all_telecom_attachments(rows)) |->
                all_telecom_attachments(rows)[k].height]),
     comm_attach |-> assign_comm_attachments(all_telecom_attachments(rows), mapped_comms)]

(***************************************************************************)
(* Keyword tests of the attachment matcher, on texts                       *)
(***************************************************************************)
\* the Python test 'sub in s'
Contains(s, sub) ==
    \E i \in 1..(Len(s) - Len(sub) + 1) : \A k \in 1..Len(sub) : s[i + k - 1] = sub[k]

\* re.search(r'\b' + re.escape(kw) + r'\b', s)
ContainsWord(s, kw) == \E i \in 1..Len(s) : KeywordMatchAt(s, kw, i)

\* pole_data_processor.py 838-842: a row is a communication attachment when
\* a comm keyword, as configured, is in the lowered measured or company cell
is_comm(measured, company, comm_keywords) ==
    \E n \in 1..Len(comm_keywords) :
        \/ Contains(Lower(measured), comm_keywords[n])
        \/ Contains(Lower(company), comm_keywords[n])

\* pole_data_processor.py 863-870: the first configured provider with a
\* keyword in the company cell, 0 for none; telecom_keywords is a sequence
\* of keyword lists, one per provider
provider_of_company(company, telecom_keywords) ==
    IF \E p \in 1..Len(telecom_keywords) : \E n \in 1..Len(telecom_keywords[p]) :
          Contains(Lower(Lower(company)), Lower(telecom_keywords[p][n]))
    THEN CHOOSE p \in 1..Len(telecom_keywords) :
            /\ \E n \in 1..Len(telecom_keywords[p]) :
                  Contains(Lower(Lower(company)), Lower(telecom_keywords[p][n]))
            /\ \A q \in 1..(p - 1) : \A n \in 1..Len(telecom_keywords[q]) :
                  ~Contains(Lower(Lower(company)), Lower(telecom_keywords[q][n]))
    ELSE 0

\* attachment_data_reader.py 84-90: the company cell names the power company
power_company_matches(company, power_company) ==
    /\ Lower(Strip(power_company)) # <<>>
    /\ ContainsWord(Lower(Strip(company)), Lower(Strip(power_company)))

\* attachment_data_reader.py 95-100: the measured cell matches the
\* alternation of the escaped power keywords
power_keyword_matches(measured, power_keywords) ==
    \E n \in 1..Len(power_keywords) :
        Contains(Lower(Strip(measured)), Lower(Strip(power_keywords[n])))

\* PoleDataProcessor._match_telecom_provider: the first provider with a
\* keyword in the owner text, 0 for None
match_telecom_provider(owner, telecom_keywords) ==
    IF \E p \in 1..Len(telecom_keywords) : \E n \in 1..Len(telecom_keywords[p]) :
          Contains(Lower(owner), Lower(telecom_keywords[p][n]))
    THEN CHOOSE p \in 1..Len(telecom_keywords) :
            /\ \E n \in 1..Len(telecom_keywords[p]) :
                  Contains(Lower(owner), Lower(telecom_keywords[p][n]))
            /\ \A q \in 1..(p - 1) : \A n \in 1..Len(telecom_keywords[q]) :
                  ~Contains(Lower(owner), Lower(telecom_keywords[q][n]))
    ELSE 0

(***************************************************************************)
(* AttachmentDataReader.find_telecom_attachments, on texts.  A survey      *)
(* record is [company, measured, height_in_inches]; telecom_keywords is a  *)
(* sequence of [provider, keywords].                                       *)
(***************************************************************************)
\* lines 138-141: the stripped non-empty keywords, and the provider's name
clean_keywords(provider, keywords) ==
    SelectSeq([n \in 1..Len(keywords) |-> Strip(keywords[n])], LAMBDA kw : kw # <<>>)
       \o (IF Strip(provider) # <<>>
              /\ \A n \in 1..Len(keywords) : Strip(keywords[n]) # Strip(provider)
           THEN <<Strip(provider)>> ELSE <<>>)

\* line 143: \b(?:k1|k2|...)\b, the keywords lowered, on the lowered company cell
company_regex(company, keywords) ==
    \E n \in 1..Len(keywords) : ContainsWord(Lower(company), Lower(keywords[n]))

\* lines 147-150: (?i)(catv com|telco com|fiber optic com|insulator|power guy)
measured_patterns ==
    << <<"c", "a", "t", "v", " ", "c", "o", "m">>,
       <<"t", "e", "l", "c", "o", " ", "c", "o", "m">>,
       <<"f", "i", "b", "e", "r", " ", "o", "p", "t", "i", "c", " ", "c", "o", "m">>,
       <<"i", "n", "s", "u", "l", "a", "t", "o", "r">>,
       <<"p", "o", "w", "e", "r", " ", "g", "u", "y">> >>

measured_regex(measured) ==
    \E n \in 1..Len(measured_patterns) : Contains(Lower(measured), measured_patterns[n])

\* line 155: the records whose measured cell contains 'power guy'
power_guy_rows(rows) ==
    SelectSeq(rows, LAMBDA row : Contains(Lower(row.measured), measured_patterns[5]))

\* lines 153-167: the records of the provider
provider_rows(rows, keywords) ==
    IF power_guy_rows(rows) # <<>>
    THEN SelectSeq(power_guy_rows(rows), LAMBDA row : company_regex(row.company, keywords))
    ELSE SelectSeq(rows, LAMBDA row : company_regex(row.company, keywords)
                                         /\ measured_regex(row.measured))

\* lines 176-208: the valid heights, highest first, each formatted from its
\* whole inches, those that cannot be formatted left out
telecom_heights(matching) ==
    SelectSeq(SortDescending([n \in 1..Len(SelectSeq(matching,
                                  LAMBDA row : IsNumeric(row.height_in_inches))) |->
                 [height |-> SelectSeq(matching,
                                LAMBDA row : IsNumeric(row.height_in_inches))[n]
                                   .height_in_inches.tenths,
                  formatted |-> inches_to_feet_whole(
                      SelectSeq(matching, LAMBDA row : IsNumeric(row.height_in_inches))[n]
                         .height_in_inches.tenths \div 10)]]),
              LAMBDA x : x.formatted.shown)

\* lines 210-219: the attachment of a provider, none without a height
telecom_attachment(heights) ==
    IF heights = <<>> THEN [found |-> FALSE, heights |-> <<>>, height_decimal |-> 0]
    ELSE [found |-> TRUE,
          heights |-> [n \in 1..Len(heights) |-> heights[n].formatted],
          height_decimal |-> heights[Len(heights)].height]

\* AttachmentDataReader.find_telecom_attachments: one attachment per provider
find_telecom_attachments(rows, telecom_keywords) ==
    [p \in 1..Len(telecom_keywords) |->
        telecom_attachment(telecom_heights(
            provider_rows(rows, clean_keywords(telecom_keywords[p].provider,
                                               telecom_keywords[p].keywords))))]

(***************************************************************************)
(* The height codec of Utils, on texts.  A height argument is              *)
(* [kind, form, text, feet, inches, value]: kind "str" is a text, "num" a  *)
(* number whose str() is the text, "none" is None; form, feet, inches and  *)
(* value (hundredths of an inch, -1 for no height) tell what the text was  *)
(* written from and are not read by the codec.  A float is                 *)
(* [ok, negative, special, cents]: ok is FALSE for a ValueError, special   *)
(* is "inf", "nan" or "", cents the magnitude in hundredths.  The texts of *)
(* the model carry at most two decimals.                                   *)
(***************************************************************************)
\* round(a / b) for a >= 0 and b > 0, a / b not half an integer
RoundDiv(a, b) == (2 * a + b) \div (2 * b)

\* round(cents / 100): an exact half goes to the even integer
RoundHalfEven(cents) ==
    IF cents % 100 = 50 THEN (cents \div 100) + ((cents \div 100) % 2)
    ELSE RoundDiv(cents, 100)

\* the number written as the digits whole, a point and the digits frac
Hundredths(whole, frac) ==
    100 * ToInt(whole) +
        (IF frac = <<>> THEN 0
         ELSE IF Len(frac) = 1 THEN 10 * ToInt(frac)
         ELSE ToInt(Take(frac, 2)))

NoFloat == [ok |-> FALSE, negative |-> FALSE, special |-> "", cents |-> 0]

\* float() of a text without sign and without blanks around it
FloatBody(body, negative) ==
    IF body \in {<<"i", "n", "f">>, <<"n", "a", "n">>}
    THEN [ok |-> TRUE, negative |-> negative, cents |-> 0,
          special |-> IF body[1] = "i" THEN "inf" ELSE "nan"]
    ELSE IF IsDigitStr(body)
    THEN [ok |-> TRUE, negative |-> negative, special |-> "", cents |-> 100 * ToInt(body)]
    ELSE IF /\ Len(body) > 1
            /\ DigitPrefixLen(body) < Len(body)
            /\ body[DigitPrefixLen(body) + 1] = "."
            /\ \A i \in (DigitPrefixLen(body) + 2)..Len(body) : IsDigit(body[i])
    THEN [ok |-> TRUE, negative |-> negative, special |-> "",
          cents |-> Hundredths(Take(body, DigitPrefixLen(body)),
                               Drop(body, DigitPrefixLen(body) + 1))]
    ELSE NoFloat

\* float(text)
PyFloat(text) ==
    IF Strip(text) # <<>> /\ Strip(text)[1] = "-" THEN FloatBody(Tail(Strip(text)), TRUE)
    ELSE FloatBody(Strip(text), FALSE)

\* 'not height_str or str(height_str).strip() == ""'
IsBlankHeight(height) ==
    \/ height.kind = "none"
    \/ /\ height.kind = "num"
       /\ PyFloat(height.text).ok /\ PyFloat(height.text).special = ""
       /\ PyFloat(height.text).cents = 0
    \/ Strip(height.text) = <<>>

\* (\d+)' matched at the start of s: the length of the digit run, 0 for no match
FeetLen(s) ==
    IF DigitPrefixLen(s) > 0 /\ Len(s) > DigitPrefixLen(s) /\ s[DigitPrefixLen(s) + 1] = "'"
    THEN DigitPrefixLen(s) ELSE 0

\* what follows the apostrophe of (\d+)'
AfterFeet(s) == Drop(s, FeetLen(s) + 1)

\* -? matched at the start of rest
SkipHyphen(rest) == IF rest # <<>> /\ rest[1] = "-" THEN Tail(rest) ELSE rest

\* (\d+)\" matches at the start of rest
QuotedInches(rest) ==
    DigitPrefixLen(rest) > 0 /\ Len(rest) > DigitPrefixLen(rest)
        /\ rest[DigitPrefixLen(rest) + 1] = "\""

\* int() of the digit run at the start of s, 0 when there is none
LeadingInt(s) == ToInt(Take(s, DigitPrefixLen(s)))

\* (\d+)'-?(\d+)\" matches at the start of s
MatchesHyphenated(s) == FeetLen(s) > 0 /\ QuotedInches(SkipHyphen(AfterFeet(s)))

\* (\d+)'\s+(\d+)\"? matches at the start of s
MatchesSpaced(s) ==
    /\ FeetLen(s) > 0
    /\ AfterFeet(s) # <<>> /\ IsSpace(AfterFeet(s)[1])
    /\ DigitPrefixLen(LStrip(AfterFeet(s))) > 0

\* (\d+)\.(\d+) matches at the start of s
MatchesDecimal(s) ==
    /\ DigitPrefixLen(s) > 0 /\ Len(s) > DigitPrefixLen(s) + 1
    /\ s[DigitPrefixLen(s) + 1] = "."
    /\ IsDigit(s[DigitPrefixLen(s) + 2])

\* the digits after the point of (\d+)\.(\d+) or (\d+\.?\d*)
DecimalsOf(s) ==
    IF Len(s) > DigitPrefixLen(s) /\ s[DigitPrefixLen(s) + 1] = "."
    THEN Take(Drop(s, DigitPrefixLen(s) + 1), DigitPrefixLen(Drop(s, DigitPrefixLen(s) + 1)))
    ELSE <<>>

\* Utils.parse_height_format on the stripped text
FormatStripped(s) ==
    IF MatchesHyphenated(s) THEN Display(LeadingInt(s), LeadingInt(SkipHyphen(AfterFeet(s))))
    ELSE IF MatchesSpaced(s) THEN Display(LeadingInt(s), LeadingInt(LStrip(AfterFeet(s))))
    ELSE IF FeetLen(s) > 0 THEN Display(LeadingInt(s), 0)
    ELSE IF MatchesDecimal(s)
    THEN Display(LeadingInt(s), RoundDiv(12 * Hundredths(<<>>, DecimalsOf(s)), 100))
    ELSE IF IsDigitStr(s) THEN Display(LeadingInt(s), 0)
    ELSE NoDisplay

\* Utils.parse_height_format: the display text, '' when shown is FALSE
parse_height_format(height) ==
    IF IsBlankHeight(height) THEN NoDisplay ELSE FormatStripped(Strip(height.text))

NoDecimal == [ok |-> FALSE, value |-> 0]

\* a mistaken conversion that drops the inches
FeetWithoutInches(feet, inches) == [ok |-> TRUE, value |-> 100 * feet]

\* round(feet + inches / 12, 2), in hundredths of a foot
FeetAndInches(feet, inches) == [ok |-> TRUE, value |-> 100 * feet + RoundDiv(100 * inches, 12)]

\* lines 174-180: the number (\d+\.?\d*) as feet or as inches
DecimalOrInches(s, cents) ==
    IF (\E i \in 1..Len(s) : s[i] = ".") /\ cents < 5000 THEN [ok |-> TRUE, value |-> cents]
    ELSE [ok |-> TRUE, value |-> RoundDiv(cents, 12)]

\* Utils.parse_height_decimal on the stripped text
DecimalStripped(s) ==
    IF MatchesHyphenated(s)
    THEN FeetAndInches(LeadingInt(s), LeadingInt(SkipHyphen(AfterFeet(s))))
    ELSE IF FeetLen(s) > 0
    THEN FeetAndInches(LeadingInt(s), LeadingInt(LStrip(AfterFeet(s))))
    ELSE IF DigitPrefixLen(s) > 0
    THEN DecimalOrInches(s, Hundredths(Take(s, DigitPrefixLen(s)), DecimalsOf(s)))
    ELSE NoDecimal

\* Utils.parse_height_decimal on a text, in hundredths of a foot; ok is
\* FALSE for None
ParseHeightDecimal(height) ==
    IF IsBlankHeight(height) THEN NoDecimal ELSE DecimalStripped(Strip(height.text))

\* lines 229-237 of Utils.inches_to_feet_format: total inches to F' I"
WholeInchesDisplay(total_inches) == Display(total_inches \div 12, total_inches % 12)

\* lines 228-237 on the float total_inches: '' for a negative number and
\* for nan, whose round() raises the ValueError the function catches; no
\* text is returned for inf, whose round() raises an OverflowError
FloatInchesDisplay(total) ==
    IF ~total.ok \/ total.special # "" THEN NoDisplay
    ELSE IF total.negative /\ total.cents > 0 THEN NoDisplay
    ELSE WholeInchesDisplay(RoundHalfEven(total.cents))

\* lines 212-222: a text with a decimal point is feet below 50, else inches;
\* a negative number is below 50 and round(value * 12) may be 0
PointInchesDisplay(value) ==
    IF ~value.ok \/ value.special # "" THEN NoDisplay
    ELSE IF value.negative
    THEN (IF RoundDiv(12 * value.cents, 100) = 0 THEN WholeInchesDisplay(0) ELSE NoDisplay)
    ELSE IF value.cents < 5000 THEN WholeInchesDisplay(RoundDiv(12 * value.cents, 100))
    ELSE WholeInchesDisplay(RoundHalfEven(value.cents))

HasChar(s, c) == \E i \in 1..Len(s) : s[i] = c

\* lines 196-206: a text with a quote mark goes through parse_height_decimal
QuotedInchesDisplay(parsed_decimal) ==
    IF parsed_decimal.ok THEN WholeInchesDisplay(RoundDiv(12 * parsed_decimal.value, 100))
    ELSE NoDisplay

\* Utils.inches_to_feet_format returns: the display text, '' when shown is FALSE
inches_to_feet_format(height) ==
    IF height.kind = "none" THEN NoDisplay
    ELSE IF height.kind = "num" THEN FloatInchesDisplay(PyFloat(height.text))
    ELSE IF HasChar(Strip(height.text), "'") \/ HasChar(Strip(height.text), "\"")
    THEN QuotedInchesDisplay(ParseHeightDecimal([height EXCEPT !.text = Strip(height.text)]))
    ELSE IF HasChar(Strip(height.text), ".") THEN PointInchesDisplay(PyFloat(height.text))
    ELSE FloatInchesDisplay(PyFloat(height.text))

\* Utils.inches_to_feet_format raises: round() of an infinite total_inches
\* is an OverflowError, which 'except (ValueError, TypeError)' lets through
inches_to_feet_format_raises(height) ==
    /\ height.kind # "none"
    /\ height.kind = "str" =>
          ~HasChar(Strip(height.text), "'") /\ ~HasChar(Strip(height.text), "\"")
    /\ PyFloat(height.text).ok
    /\ PyFloat(height.text).special = "inf"
    /\ ~PyFloat(height.text).negative

\* Utils.decimal_feet_to_feet_format on a result of parse_height_decimal:
\* the text F'I", None when shown is FALSE
decimal_feet_to_feet_format(decimal_feet) ==
    IF ~decimal_feet.ok THEN NoDisplay
    ELSE IF RoundDiv(12 * (decimal_feet.value % 100), 100) = 12
    THEN Display(decimal_feet.value \div 100 + 1, 0)
    ELSE Display(decimal_feet.value \div 100, RoundDiv(12 * (decimal_feet.value % 100), 100))

\* str(decimal_feet) of a result of parse_height_decimal, as an argument
DecimalAsNumber(decimal_feet) ==
    [ok |-> TRUE, negative |-> FALSE, special |-> "", cents |-> decimal_feet.value]

\* decimal_feet_to_feet_format(parse_height_decimal(height))
RoundTrip(height) == decimal_feet_to_feet_format(ParseHeightDecimal(height))

\* inches_to_feet_format(parse_height_decimal(height)), None being no number
RoundTripAsInches(height) ==
    IF ParseHeightDecimal(height).ok
    THEN FloatInchesDisplay(DecimalAsNumber(ParseHeightDecimal(height)))
    ELSE NoDisplay

(***************************************************************************)
(* State                                                                   *)
(***************************************************************************)
VARIABLES
    nodes_df,         \* the nodes sheet
    connections_df,   \* the connections sheet
    sections_df,      \* the sections sheet
    manual_routes,    \* the parsed manual routes handed to process_data
    qc_reader,        \* the QC reader after load_qc_file
    pc,               \* where process_data is: start, build, connections, returned, failed
    checkpoints,      \* the percentages progress_callback has been invoked with
    stop_requested,   \* progress_callback has answered False
    mappings,         \* the mappings of _create_mappings
    temp_rows,        \* the temporary pole records
    result_data,      \* the rows process_data returns
    error,            \* the error process_data raised
    written,          \* [done, rows]: the rows PoleDataProcessor.write_output wrote
    og_written,       \* [done, rows]: the rows OutputGenerator.write_output wrote
    cp_result,        \* [done, rows]: the tuples ConnectionProcessor.process_connections returned
    section_found,    \* [done, connection_id, pole_scid, to_pole_scid, position]: a _find_section call
    attachments,      \* [done, rows, mapped_comms, result]: a _process_attachments call
    scid_call,        \* [done, scid, keywords, normalized, renormalized, qc_normalized]
    height_call,      \* [done, height, decimal, format, inches_format, raised, round_trip, ...]
    worker,           \* the thread of _process_files_worker and the stop flag of the window
    row_section,      \* [done, connection_id, pole_node_id, to_pole_scid, section, midspan]
    telecom_call,     \* [done, rows, result]: a find_telecom_attachments call
    matcher_call,     \* [done, field, keyword, ...]: the keyword tests of the attachment matcher
    app,              \* the window: its button, stop flag, thread attribute, threads, callbacks
    qc_load           \* [calls, file]: the load_qc_file calls made on the reader, and the last file

vars == <<nodes_df, connections_df, sections_df, manual_routes, qc_reader, pc,
          checkpoints, stop_requested, mappings, temp_rows, result_data, error,
          written, og_written, cp_result, section_found, attachments, scid_call,
          height_call, worker, row_section, telecom_call, matcher_call, app, qc_load>>

\* the calls of the attachment matcher, and the window
window_and_matchers == <<telecom_call, matcher_call, app, qc_load>>

\* the calls of single functions, and the worker thread
calls == <<section_found, attachments, scid_call, height_call, worker, row_section,
           window_and_matchers>>

\* the run of process_data and of the writers
pipeline == <<pc, checkpoints, stop_requested, mappings, temp_rows, result_data, error,
              written, og_written, cp_result>>

inputs == <<nodes_df, connections_df, sections_df, manual_routes, qc_reader>>

NotDone == [done |-> FALSE, rows |-> <<>>]

NoSections == [has_pole_cols |-> FALSE, rows |-> <<>>]

NoSectionCall ==
    [done |-> FALSE, connection_id |-> "", pole_scid |-> <<>>, to_pole_scid |-> <<>>,
     position |-> 0]

\* the sheets, routes and QC rows a processor is constructed on
StartSheets(nodes, conns, sections, segments, qc_rows) ==
    /\ nodes_df = nodes
    /\ connections_df = conns
    /\ sections_df = sections
    /\ manual_routes = parse_manual_routes(segments)
    /\ qc_reader = load_qc_file(qc_rows)
    /\ pc = "start"
    /\ checkpoints = <<>>
    /\ stop_requested = FALSE
    /\ mappings = NoMappings
    /\ temp_rows = <<>>
    /\ result_data = <<>>
    /\ error = NoError
    /\ written = NotDone
    /\ og_written = NotDone
    /\ cp_result = NotDone
    /\ section_found = NoSectionCall

NoScidCall ==
    [done |-> FALSE, scid |-> <<>>, keywords |-> <<>>, normalized |-> <<>>,
     renormalized |-> <<>>, qc_normalized |-> <<>>]

NoAttachments == [done |-> FALSE, rows |-> <<>>, mapped_comms |-> {}, result |-> <<>>]

\* the argument None
NoneHeight ==
    [kind |-> "none", form |-> "other", text |-> <<>>, feet |-> 0, inches |-> 0,
     value |-> -1]

NoHeightCall ==
    [done |-> FALSE, height |-> NoneHeight, decimal |-> NoDecimal, format |-> NoDisplay,
     inches_format |-> NoDisplay, raised |-> FALSE, round_trip |-> NoDisplay,
     round_trip_inches |-> NoDisplay]

\* no worker thread: process_data is called on its own
NoWorker ==
    [pc |-> "idle", stage |-> 1, stop_processing |-> FALSE, use_manual_routes |-> FALSE,
     negative |-> {}, output_file |-> FALSE, complete |-> FALSE]

NoRowSection ==
    [done |-> FALSE, connection_id |-> "", pole_node_id |-> <<>>, to_pole_scid |-> <<>>,
     section |-> RowSection(0, "none"), midspan |-> <<>>]

NoTelecomCall == [done |-> FALSE, rows |-> <<>>, result |-> <<>>]

NoMatcherCall ==
    [done |-> FALSE, field |-> <<>>, keyword |-> <<>>, is_comm |-> FALSE,
     provider |-> FALSE, power_company |-> FALSE, power_keyword |-> FALSE,
     telecom_provider |-> FALSE]

\* the window after construction: no thread, the button idle
\* the process button as the window builds it (main_window.py 897)
Button(text, state) == [text |-> text, state |-> state]

\* the window before any click: processing_thread None (0), no thread started,
\* no callback pending on the UI loop, no message box shown
NoApp ==
    [processing_thread |-> 0, stop_processing |-> FALSE,
     button |-> Button("Process Files", "normal"),
     threads |-> <<>>, callbacks |-> <<>>, message |-> ""]

\* a path that names no file
NoFile == [exists |-> FALSE, readable |-> FALSE, sheets |-> <<>>]

NoLoad == [calls |-> 0, file |-> NoFile]

NoWindowNorMatchers ==
    /\ telecom_call = NoTelecomCall
    /\ matcher_call = NoMatcherCall
    /\ app = NoApp
    /\ qc_load = NoLoad

\* the state of a processor constructed on the given sheets, routes and QC rows
Start(nodes, conns, sections, segments, qc_rows) ==
    /\ StartSheets(nodes, conns, sections, segments, qc_rows)
    /\ attachments = NoAttachments
    /\ scid_call = NoScidCall
    /\ height_call = NoHeightCall
    /\ worker = NoWorker
    /\ row_section = NoRowSection
    /\ NoWindowNorMatchers

(***************************************************************************)
(* process_data, one action per stretch between two progress checkpoints   *)
(***************************************************************************)
\* lines 62-95: normalise, deduplicate, filter, build the mappings
process_data_filter ==
    /\ pc = "start"
    /\ LET nodes == drop_duplicates(NormalizeNodes(nodes_df))
           filtered == filter_valid_nodes(nodes)
       IN IF filtered = <<>>
          THEN /\ pc' = "failed"
               /\ error' = [text |-> "No valid pole or reference data found", listed |-> <<>>]
               /\ checkpoints' = <<40>>
               /\ UNCHANGED <<mappings, stop_requested>>
          ELSE \E go \in BOOLEAN :
               /\ mappings' = create_mappings(nodes, filtered)
               /\ checkpoints' = <<40, 50>>
               /\ stop_requested' = ~go
               /\ pc' = IF go THEN "build" ELSE "returned"
               /\ UNCHANGED error
    /\ UNCHANGED <<inputs, temp_rows, result_data, written, og_written, cp_result,
                   calls>>

\* lines 97-112: the temporary pole records, the manual routes, the QC filter
process_data_build ==
    /\ pc = "build"
    /\ LET built == build_temp_rows(connections_df, mappings, manual_routes, qc_reader)
       IN IF built.error # NoError
          THEN /\ pc' = "failed"
               /\ error' = built.error
               /\ temp_rows' = built.temp
               /\ UNCHANGED <<checkpoints, stop_requested>>
          ELSE \E go \in BOOLEAN :
               /\ temp_rows' =
                     IF qc_reader.active
                     THEN [sc \in (DOMAIN built.temp) \cap qc_reader.qc_scids |-> built.temp[sc]]
                     ELSE built.temp
               /\ checkpoints' = Append(checkpoints, 70)
               /\ stop_requested' = ~go
               /\ pc' = IF go THEN "connections" ELSE "returned"
               /\ UNCHANGED error
    /\ UNCHANGED <<inputs, mappings, result_data, written, og_written, cp_result,
                   calls>>

\* the rows process_data has at line 144
\* lines 128-134: with manual routes, only the rows of their poles are kept
ManualFilter(produced, routes) ==
    LET manual_scids == UNION {{routes[r].poles[k] : k \in 1..Len(routes[r].poles)} :
                                  r \in 1..Len(routes)}
    IN IF routes # <<>>
       THEN SelectSeq(produced, LAMBDA row : row.Pole \in manual_scids)
       ELSE produced

ProcessedRows(conns, maps, routes, qc) ==
    IF qc.active
    THEN ManualFilter(process_qc_filtered_connections(conns, maps, qc), routes)
    ELSE SortByPole(ManualFilter(process_standard_connections(conns, maps, qc), routes))

\* lines 114-148: the output rows, the manual filter, the sort
process_data_connections ==
    /\ pc = "connections"
    /\ IF /\ qc_reader.active
          /\ QCConnectionsRaise(
                 process_qc_filtered_connections(connections_df, mappings, qc_reader))
       THEN /\ pc' = "failed"
            /\ error' = [text |-> "OverflowError", listed |-> <<>>]
            /\ UNCHANGED <<result_data, stop_requested, checkpoints>>
       ELSE /\ \E go \in BOOLEAN :
                  /\ result_data' =
                        IF go
                        THEN ProcessedRows(connections_df, mappings, manual_routes, qc_reader)
                        ELSE <<>>
                  /\ stop_requested' = ~go
            /\ checkpoints' = Append(checkpoints, 90)
            /\ pc' = "returned"
            /\ UNCHANGED error
    /\ UNCHANGED <<inputs, mappings, temp_rows, written, og_written, cp_result, calls>>

(***************************************************************************)
(* The writers and the connection processor, on what process_data returned *)
(***************************************************************************)
\* PoleDataProcessor.write_output(result_data, output_file); with QC active
\* the final tolerance check updates the rows of result_data in place
write_output ==
    /\ pc = "returned"
    /\ ~written.done
    /\ written' = [done |-> TRUE, rows |-> pdp_write_output(result_data, qc_reader)]
    /\ result_data' = IF qc_reader.active THEN written'.rows ELSE result_data
    /\ UNCHANGED <<inputs, pc, checkpoints, stop_requested, mappings, temp_rows, error,
                   og_written, cp_result, calls>>

\* OutputGenerator.write_output(result_data, output_file)
og_write ==
    /\ pc = "returned"
    /\ ~og_written.done
    /\ og_written' = [done |-> TRUE, rows |-> og_write_output(result_data)]
    /\ UNCHANGED <<inputs, pc, checkpoints, stop_requested, mappings, temp_rows,
                   result_data, error, written, cp_result, calls>>

\* ConnectionProcessor.process_connections(connections_df, mappings, sections_df)
cp_process_connections ==
    /\ pc = "returned"
    /\ ~cp_result.done
    /\ cp_result' = [done |-> TRUE,
                     rows |-> process_connections(connections_df, mappings, qc_reader)]
    /\ UNCHANGED <<inputs, pc, checkpoints, stop_requested, mappings, temp_rows,
                   result_data, error, written, og_written, calls>>

Next ==
    \/ process_data_filter
    \/ process_data_build
    \/ process_data_connections
    \/ write_output
    \/ og_write
    \/ cp_process_connections

\* a _find_section call as _create_output_row makes it: with both SCIDs, or
\* with only the connection id
find_section_call ==
    /\ ~section_found.done
    /\ \E connection_id \in {"C1", "C2"}, with_scids \in BOOLEAN :
          LET pole_scid == IF with_scids THEN <<"A">> ELSE <<>>
              to_pole_scid == IF with_scids THEN <<"B">> ELSE <<>>
          IN section_found' =
                [done |-> TRUE, connection_id |-> connection_id,
                 pole_scid |-> pole_scid, to_pole_scid |-> to_pole_scid,
                 position |-> find_section(connection_id, sections_df, pole_scid, to_pole_scid)]
    /\ UNCHANGED <<inputs, pipeline, attachments, scid_call, height_call, worker,
                   row_section,
                   window_and_matchers>>

NextSection == find_section_call

\* _create_output_row calls _process_attachments for the pole of the row
process_attachments_call ==
    /\ ~attachments.done
    /\ attachments' =
          [attachments EXCEPT
              !.done = TRUE,
              !.result = process_attachments(attachments.rows, attachments.mapped_comms)]
    /\ UNCHANGED <<inputs, pipeline, section_found, scid_call, height_call, worker,
                   row_section,
                   window_and_matchers>>

NextAttach == process_attachments_call

\* an identifier is normalised by Utils.normalize_scid, the result normalised
\* again, and the identifier normalised by QCReader._normalize_scid
normalize_scid_call ==
    /\ ~scid_call.done
    /\ scid_call' =
          [scid_call EXCEPT
              !.done = TRUE,
              !.normalized = normalize_scid(scid_call.scid, scid_call.keywords),
              !.renormalized =
                  normalize_scid(normalize_scid(scid_call.scid, scid_call.keywords),
                                 scid_call.keywords),
              !.qc_normalized = QC_normalize_scid(scid_call.scid, scid_call.keywords)]
    /\ UNCHANGED <<inputs, pipeline, section_found, attachments, height_call, worker,
                   row_section,
                   window_and_matchers>>

NextScid == normalize_scid_call

\* a height is parsed by parse_height_decimal and parse_height_format, shown
\* by inches_to_feet_format, and its decimal feet turned back into a text
height_codec_call ==
    /\ ~height_call.done
    /\ height_call' =
          [height_call EXCEPT
              !.done = TRUE,
              !.decimal = ParseHeightDecimal(height_call.height),
              !.format = parse_height_format(height_call.height),
              !.inches_format = inches_to_feet_format(height_call.height),
              !.raised = inches_to_feet_format_raises(height_call.height),
              !.round_trip = RoundTrip(height_call.height),
              !.round_trip_inches = RoundTripAsInches(height_call.height)]
    /\ UNCHANGED <<inputs, pipeline, section_found, attachments, scid_call, worker,
                   row_section,
                   window_and_matchers>>

NextHeight == height_codec_call

\* _create_output_row looks up the section of an edge from pole A: its own
\* connection id, the node id of the pole (none when the pole has no node
\* row), and the other end
section_of_row_call ==
    /\ ~row_section.done
    /\ \E connection_id \in {"C1", "C2", "C3"}, pole_node_id \in {<<"n", "1">>, <<"n", "2">>, <<>>},
          to_pole_scid \in {<<"B">>, <<"C">>} :
          row_section' =
             [done |-> TRUE, connection_id |-> connection_id, pole_node_id |-> pole_node_id,
              to_pole_scid |-> to_pole_scid,
              section |-> section_of_row(connection_id, sections_df, connections_df,
                                         pole_node_id, <<"A">>, to_pole_scid),
              midspan |-> MidspanCells(sections_df,
                             section_of_row(connection_id, sections_df, connections_df,
                                            pole_node_id, <<"A">>, to_pole_scid).position)]
    /\ UNCHANGED <<inputs, pipeline, section_found, attachments, scid_call, height_call,
                   worker, window_and_matchers>>

NextRowSection == section_of_row_call

\* a cell text of a survey record is tested against one configured keyword
\* at each place the attachment matcher tests keywords
keyword_tests_call ==
    /\ ~matcher_call.done
    /\ matcher_call' =
          [matcher_call EXCEPT
              !.done = TRUE,
              !.is_comm = is_comm(matcher_call.field, <<>>, <<matcher_call.keyword>>),
              !.provider =
                  provider_of_company(matcher_call.field, <<<<matcher_call.keyword>>>>) = 1,
              !.power_company = power_company_matches(matcher_call.field, matcher_call.keyword),
              !.power_keyword = power_keyword_matches(matcher_call.field, <<matcher_call.keyword>>),
              !.telecom_provider =
                  match_telecom_provider(matcher_call.field, <<<<matcher_call.keyword>>>>) = 1]
    /\ UNCHANGED <<inputs, pipeline, section_found, attachments, scid_call, height_call,
                   worker, row_section, telecom_call, app, qc_load>>

NextMatcher == keyword_tests_call

\* config["telecom_keywords"]: AT&T with the keywords 'att' and 'AT&T',
\* Comcast with the keyword 'comcast'
telecom_keywords ==
    << [provider |-> <<"A", "T", "&", "T">>,
        keywords |-> << <<"a", "t", "t">>, <<"A", "T", "&", "T">> >>],
       [provider |-> <<"C", "o", "m", "c", "a", "s", "t">>,
        keywords |-> << <<"c", "o", "m", "c", "a", "s", "t">> >>] >>

\* find_telecom_attachments is called for a pole
find_telecom_attachments_call ==
    /\ ~telecom_call.done
    /\ telecom_call' =
          [telecom_call EXCEPT
              !.done = TRUE,
              !.result = find_telecom_attachments(telecom_call.rows, telecom_keywords)]
    /\ UNCHANGED <<inputs, pipeline, section_found, attachments, scid_call, height_call,
                   worker, row_section, matcher_call, app, qc_load>>

NextTelecom == find_telecom_attachments_call

\* the most load_qc_file calls made on one reader
MaxLoads == 3

\* load_qc_file is called on the reader with a file of QCFiles
load_qc_file_call(files) ==
    /\ qc_load.calls < MaxLoads
    /\ \E file \in files :
          /\ qc_reader' = load_qc_file_again(qc_reader, file)
          /\ qc_load' = [calls |-> qc_load.calls + 1, file |-> file]
    /\ UNCHANGED <<nodes_df, connections_df, sections_df, manual_routes, pipeline,
                   section_found, attachments, scid_call, height_call, worker, row_section,
                   telecom_call, matcher_call, app>>

(***************************************************************************)
(* PoleMapperApp: the process button, the worker threads it starts and the *)
(* callbacks the workers schedule on the UI loop with root.after.  A       *)
(* thread is [pc, checks, stop_asked, scheduled, how]: pc is "checkpoints" *)
(* up to the call of process_data, "output" from there to the end of the   *)
(* try block, "returning" between the worker's last statement and the end  *)
(* of the thread, "dead" after it; checks counts the checks it has passed, *)
(* stop_asked records a click that asked this thread to stop, scheduled    *)
(* that it has called root.after(0, self.reset_process_button).            *)
(***************************************************************************)
\* the most threads the clicks of a run of the window start
MaxWorkers == 3

\* the checks 'if not progress_callback(...)' of a worker, counted
MaxChecks == 2

NewThread ==
    [pc |-> "checkpoints", checks |-> 0, stop_asked |-> FALSE, scheduled |-> FALSE,
     how |-> ""]

\* threading.Thread.is_alive()
is_alive(thread) == thread.pc # "dead"

\* the thread is at work in the try block of _process_files_worker
AtWork(thread) == thread.pc \in {"checkpoints", "output"}

\* 'self.processing_thread and self.processing_thread.is_alive()'
AlreadyProcessing(a) ==
    a.processing_thread # 0 /\ is_alive(a.threads[a.processing_thread])

\* process_files, lines 1135-1139: the click asks the processing thread to stop
StopAsked(a) ==
    [a EXCEPT !.stop_processing = TRUE,
              !.button = Button("Stopping...", "disabled"),
              !.threads[a.processing_thread].stop_asked = TRUE]

\* process_files, lines 1153-1175: the stop flag is reset, the button reads
\* STOP, a thread is created and started
Started(a) ==
    [a EXCEPT !.stop_processing = FALSE,
              !.button = Button("STOP", "normal"),
              !.threads = Append(@, NewThread),
              !.processing_thread = Len(a.threads) + 1]

\* root.after(0, self.reset_process_button) called by thread t, which then
\* returns
Scheduling(a, t, how) ==
    [a EXCEPT !.callbacks = Append(@, t),
              !.threads[t].scheduled = TRUE,
              !.threads[t].how = how,
              !.threads[t].pc = "returning"]

\* unchanged by the steps of the window and of its threads
outside_window ==
    <<inputs, pipeline, section_found, attachments, scid_call, height_call, worker,
      row_section, telecom_call, matcher_call, qc_load>>

\* PoleMapperApp.process_files: a click on the process button, which is the
\* command of the button only and cannot be clicked while disabled; all three
\* required paths are given or one is missing
process_files ==
    /\ app.button.state = "normal"
    /\ \E paths \in BOOLEAN :
          IF AlreadyProcessing(app)
          THEN app' = StopAsked(app)
          ELSE IF ~paths
          THEN app' = [app EXCEPT !.message = "Missing Files"]
          ELSE /\ Len(app.threads) < MaxWorkers
               /\ app' = Started(app)
    /\ UNCHANGED outside_window

\* PoleMapperApp.reset_process_button, run by the UI loop as the oldest
\* pending callback
reset_process_button ==
    /\ app.callbacks # <<>>
    /\ app' = [app EXCEPT !.callbacks = Tail(@),
                          !.button = Button("Process Files", "normal"),
                          !.processing_thread = 0,
                          !.stop_processing = FALSE]
    /\ UNCHANGED outside_window

\* 'if not progress_callback(...): ... self.root.after(0,
\* self.reset_process_button); return' (lines 1200-1301): the callback answers
\* by the stop flag of the window as it is at that moment
thread_checkpoint(t) ==
    /\ t \in 1..Len(app.threads)
    /\ app.threads[t].pc = "checkpoints"
    /\ app' =
          IF app.stop_processing
          THEN Scheduling(app, t, "stopped")
          ELSE [app EXCEPT !.threads[t].checks = @ + 1,
                           !.threads[t].pc =
                               IF app.threads[t].checks + 1 = MaxChecks
                               THEN "output" ELSE "checkpoints"]
    /\ UNCHANGED outside_window

\* lines 1355-1360: an exception anywhere in the try block; the except
\* branch schedules the reset
thread_except(t) ==
    /\ t \in 1..Len(app.threads)
    /\ AtWork(app.threads[t])
    /\ app' = Scheduling(app, t, "except")
    /\ UNCHANGED outside_window

\* lines 1311-1353: process_data has returned; generate_output_file copies
\* the template or returns None.  With no output file the worker reports
\* "Failed to generate output file!" and returns (1322-1324); with one it
\* writes the output and schedules the reset on completion (1353)
thread_generate(t) ==
    /\ t \in 1..Len(app.threads)
    /\ app.threads[t].pc = "output"
    /\ \E actual_output_file \in BOOLEAN :
          app' = IF actual_output_file
                 THEN Scheduling(app, t, "complete")
                 ELSE [app EXCEPT !.threads[t].how = "no_output",
                                  !.threads[t].pc = "returning"]
    /\ UNCHANGED outside_window

\* the thread ends
thread_return(t) ==
    /\ t \in 1..Len(app.threads)
    /\ app.threads[t].pc = "returning"
    /\ app' = [app EXCEPT !.threads[t].pc = "dead"]
    /\ UNCHANGED outside_window

\* the steps of the worker threads
ThreadStep ==
    \E t \in 1..MaxWorkers :
        \/ thread_checkpoint(t)
        \/ thread_except(t)
        \/ thread_generate(t)
        \/ thread_return(t)

NextApp ==
    \/ process_files
    \/ reset_process_button
    \/ \E t \in 1..MaxWorkers : thread_checkpoint(t)
    \/ \E t \in 1..MaxWorkers : thread_except(t)
    \/ \E t \in 1..MaxWorkers : thread_generate(t)
    \/ \E t \in 1..MaxWorkers : thread_return(t)

(***************************************************************************)
(* PoleMapperApp._process_files_worker, one action per stretch between two *)
(* calls of progress_callback.  progress_callback answers False when the   *)
(* stop flag of the window is set; worker.negative holds the percentages   *)
(* the worker's own calls were answered False at.                          *)
(***************************************************************************)
\* the percentages of the checks up to the call of process_data
WorkerCheckpoints == <<0, 5, 10, 15, 20, 25, 27, 30, 40>>

\* progress_callback(percentage, message) called by the worker w
Answered(w, percentage) ==
    [w EXCEPT !.negative = IF w.stop_processing THEN @ \cup {percentage} ELSE @]

\* the check after the one at stage: the one at 5% is made with manual routes only
NextStage(w) ==
    IF WorkerCheckpoints[w.stage + 1] = 5 /\ ~w.use_manual_routes THEN w.stage + 2
    ELSE w.stage + 1

\* PoleMapperApp.request_stop: the STOP button while the thread is alive
request_stop ==
    /\ worker.pc \in {"checkpoints", "process_data", "write", "written"}
    /\ ~worker.stop_processing
    /\ worker' = [worker EXCEPT !.stop_processing = TRUE]
    /\ UNCHANGED <<inputs, pipeline, section_found, attachments, scid_call, height_call, row_section,
                   window_and_matchers>>

\* lines 1200-1322: 'if not progress_callback(...): ... return', then the
\* stretch up to the next check
worker_checkpoint ==
    /\ worker.pc = "checkpoints"
    /\ worker' =
          IF worker.stop_processing
          THEN [Answered(worker, WorkerCheckpoints[worker.stage]) EXCEPT !.pc = "stopped"]
          ELSE IF worker.stage = Len(WorkerCheckpoints)
          THEN [worker EXCEPT !.pc = "process_data"]
          ELSE [worker EXCEPT !.stage = NextStage(worker)]
    /\ UNCHANGED <<inputs, pipeline, section_found, attachments, scid_call, height_call, row_section,
                   window_and_matchers>>

\* process_data is running in the worker, its progress_callback answering
\* by the stop flag
AnsweredByFlag == pc' # "failed" => stop_requested' = worker.stop_processing

worker_filter == worker.pc = "process_data" /\ process_data_filter /\ AnsweredByFlag

worker_build == worker.pc = "process_data" /\ process_data_build /\ AnsweredByFlag

worker_connections ==
    worker.pc = "process_data" /\ process_data_connections /\ AnsweredByFlag

\* lines 1333-1344: progress_callback(85, ...), whose answer is not looked
\* at, and generate_output_file, which copies the template or fails
worker_generate ==
    /\ worker.pc = "process_data"
    /\ pc = "returned"
    /\ \E copied \in BOOLEAN :
          worker' = [Answered(worker, 85) EXCEPT
                        !.output_file = copied,
                        !.pc = IF copied THEN "write" ELSE "no_output"]
    /\ UNCHANGED <<inputs, pipeline, section_found, attachments, scid_call, height_call, row_section,
                   window_and_matchers>>

\* lines 1352-1357: progress_callback(90, ...), whose answer is not looked
\* at, and processor.write_output(result_data, ...)
worker_write ==
    /\ worker.pc = "write"
    /\ written' = [done |-> TRUE, rows |-> pdp_write_output(result_data, qc_reader)]
    /\ result_data' = IF qc_reader.active THEN written'.rows ELSE result_data
    /\ worker' = [Answered(worker, 90) EXCEPT !.pc = "written"]
    /\ UNCHANGED <<inputs, pc, checkpoints, stop_requested, mappings, temp_rows, error,
                   og_written, cp_result, section_found, attachments, scid_call,
                   height_call, row_section,
                   window_and_matchers>>

\* lines 1359-1373: progress_callback(100, "Processing complete!") and the
\* log lines that report the run complete
worker_complete ==
    /\ worker.pc = "written"
    /\ worker' = [Answered(worker, 100) EXCEPT !.complete = TRUE, !.pc = "done"]
    /\ UNCHANGED <<inputs, pipeline, section_found, attachments, scid_call, height_call, row_section,
                   window_and_matchers>>

\* lines 1375-1380: an exception of process_data ends the worker
worker_except ==
    /\ worker.pc = "process_data"
    /\ pc = "failed"
    /\ worker' = [worker EXCEPT !.pc = "failed"]
    /\ UNCHANGED <<inputs, pipeline, section_found, attachments, scid_call, height_call, row_section,
                   window_and_matchers>>

NextWorker ==
    \/ request_stop
    \/ worker_checkpoint
    \/ worker_filter
    \/ worker_build
    \/ worker_connections
    \/ worker_generate
    \/ worker_write
    \/ worker_complete
    \/ worker_except

(***************************************************************************)
(* Inputs                                                                  *)
(***************************************************************************)
\* all sequences over S of length at most n
SeqUpTo(S, n) == UNION {[1..k -> S] : k \in 0..n}

Node(node_id, scid, node_type, pole_status) ==
    [node_id |-> node_id, scid |-> scid, node_type |-> node_type,
     pole_status |-> pole_status]

Conn(node_id_1, node_id_2, connection_id, span_distance) ==
    [node_id_1 |-> node_id_1, node_id_2 |-> node_id_2,
     connection_id |-> connection_id, span_distance |-> span_distance]

\* the node ids of the export, one per node row
NodeIds == <<<<"n", "1">>, <<"n", "2">>, <<"n", "3">>, <<"n", "4">>, <<"n", "5">>>>

ConnIds == <<"C1", "C2", "C3", "C4", "C5">>

NodeKinds ==
    { [node_type |-> "pole", pole_status |-> ""],
      [node_type |-> "Reference ", pole_status |-> ""],
      [node_type |-> "Pole", pole_status |-> "Underground"],
      [node_type |-> "anchor", pole_status |-> ""] }

NodeScids == { <<"1">>, <<"0", "1">>, <<"2">> }

\* node sheets of up to MaxNodes rows: any role, status and SCID text
InitNodes ==
    \E n \in 0..MaxNodes :
    \E scids \in [1..n -> NodeScids], kinds \in [1..n -> NodeKinds] :
        Start([i \in 1..n |-> Node(NodeIds[i], scids[i], kinds[i].node_type,
                                   kinds[i].pole_status)],
              <<Conn(NodeIds[1], NodeIds[2], "C1", NumSpan(1000))>>,
              NoSections, <<>>, <<>>)

SpecNodes == InitNodes /\ [][Next]_vars

\* three nodes with SCIDs 1, 2, 3, poles or references, and up to MaxConns
\* connection rows between different nodes, in either endpoint order
InitAuto ==
    \E k1 \in {"pole", "Reference "}, k2 \in {"pole", "Reference "},
       s3 \in {"", "Underground"} :
    \E conns \in SeqUpTo({p \in (1..3) \X (1..3) : p[1] # p[2]}, MaxConns) :
        Start(<<Node(NodeIds[1], <<"1">>, k1, ""), Node(NodeIds[2], <<"2">>, k2, ""),
                Node(NodeIds[3], <<"3">>, "pole", s3)>>,
              [i \in 1..Len(conns) |->
                  Conn(NodeIds[conns[i][1]], NodeIds[conns[i][2]], ConnIds[i],
                       NumSpan(1000 + 10 * i))],
              NoSections, <<>>, <<>>)

SpecAuto == InitAuto /\ [][Next]_vars

\* the connection rows the manual-route runs choose from: 1-2, 2-3, 1-4, 3-4
BaseConns ==
    << Conn(NodeIds[1], NodeIds[2], "C1", NumSpan(1000)),
       Conn(NodeIds[2], NodeIds[3], "C2", NumSpan(1100)),
       Conn(NodeIds[1], NodeIds[4], "C3", NumSpan(1200)),
       Conn(NodeIds[3], NodeIds[4], "C4", NumSpan(1300)) >>

\* the route segments the manual-route runs choose from
RouteSegments ==
    { << <<"1">>, <<"2">>, <<"3">> >>,
      << <<"0", "1">>, <<" ", "2">> >>,
      << <<"3">>, <<"4">> >>,
      << <<"1">>, <<"5">> >> }

\* four poles with SCIDs 1..4, any sub-list of BaseConns, up to MaxRoutes routes
InitManual ==
    \E present \in SUBSET (1..Len(BaseConns)) :
    \E segments \in SeqUpTo(RouteSegments, MaxRoutes) :
        LET kept == KeptPositions([i \in 1..Len(BaseConns) |-> i \in present])
        IN Start([i \in 1..4 |-> Node(NodeIds[i], StrInt(<<DigitChars[i + 1]>>), "pole", "")],
                 [k \in 1..Len(kept) |-> BaseConns[kept[k]]],
                 NoSections, segments, <<>>)

SpecManual == InitManual /\ [][Next]_vars

\* the survey spans of the connection 1-2 in the QC runs: 100, 105.4, none
SurveySpans == {NumSpan(1000), NumSpan(1054), EmptySpan}

\* the (Pole, To Pole) texts of the QC rows: known poles with a connection,
\* in another order than their SCIDs sort and not in normal form; node ids
\* that are no SCIDs; an unknown pole; a row without To Pole
QCPairs ==
    { << <<"3">>, <<"2">> >>,
      << <<"0", "1">>, <<"2">> >>,
      << <<"7">>, <<"8">> >>,
      << <<"9">>, <<"2">> >>,
      << <<"4">>, <<>> >> }

QCSpans == {NumSpan(1020), EmptySpan}

QCRows ==
    {[Pole |-> p[1], To_Pole |-> p[2], Span_Length |-> q] : p \in QCPairs, q \in QCSpans}

\* poles 1 and 2, reference 3, a connection between node ids that have no
\* node row, up to MaxQC QC rows, with or without a manual route
InitQC ==
    \E s \in SurveySpans, qc_rows \in SeqUpTo(QCRows, MaxQC),
       segments \in {<<>>, << << <<"1">>, <<"2">> >> >>} :
        Start(<<Node(NodeIds[1], <<"1">>, "pole", ""), Node(NodeIds[2], <<"2">>, "pole", ""),
                Node(NodeIds[3], <<"3">>, "Reference ", "")>>,
              <<Conn(NodeIds[1], NodeIds[2], "C1", s),
                Conn(NodeIds[3], NodeIds[2], "C2", NumSpan(1500)),
                Conn(<<"7">>, <<"8">>, "C3", NumSpan(500))>>,
              NoSections, segments, qc_rows)

SpecQC == InitQC /\ [][Next]_vars

\* QC rows that name the same pair of poles with different spans: the pair
\* 1-2 as '01' and as '1', within the tolerance of the survey span of 100
RepeatedQCRows ==
    {[Pole |-> p, To_Pole |-> <<"2">>, Span_Length |-> q] :
        p \in {<<"0", "1">>, <<"1">>, <<"3">>}, q \in {NumSpan(1020), NumSpan(990)}}

InitRepeatedQC ==
    \E qc_rows \in SeqUpTo(RepeatedQCRows, MaxQC) :
        Start(<<Node(NodeIds[1], <<"1">>, "pole", ""), Node(NodeIds[2], <<"2">>, "pole", ""),
                Node(NodeIds[3], <<"3">>, "Reference ", "")>>,
              <<Conn(NodeIds[1], NodeIds[2], "C1", NumSpan(1000)),
                Conn(NodeIds[3], NodeIds[2], "C2", NumSpan(1000))>>,
              NoSections, <<>>, qc_rows)

SpecRepeatedQC == InitRepeatedQC /\ [][Next]_vars

Ft(feet, inches) == [kind |-> "ftin", feet |-> feet, inches |-> inches]

Inches(inches) == [kind |-> "int", feet |-> 0, inches |-> inches]

NoHeight(kind) == [kind |-> kind, feet |-> 0, inches |-> 0]

Section(connection_id, pole, to_pole, heights) ==
    [connection_id |-> connection_id, pole |-> pole, to_pole |-> to_pole,
     heights |-> heights]

\* the section rows the sheets are made of
SectionRows ==
    { Section("C1", <<"A">>, <<"B">>, <<Ft(30, 0), Ft(24, 0)>>),
      Section("C1", <<"A">>, <<"B">>, <<Ft(25, 6), Ft(29, 0)>>),
      Section("C1", <<"A">>, <<"B">>, <<Ft(35, 0), Ft(20, 0)>>),
      Section("C1", <<"A">>, <<"B">>, <<NoHeight("text"), NoHeight("empty")>>),
      Section("C1", <<"A">>, <<"C">>, <<Inches(288), NoHeight("empty")>>),
      Section("C1", <<"A">>, <<"B">>, <<Inches(240), NoHeight("text")>>),
      Section("C2", <<"B">>, <<"C">>, <<Ft(28, 0), NoHeight("text")>>) }

\* sheets of up to MaxSections rows, with or without the pole columns
InitSection ==
    \E rows \in SeqUpTo(SectionRows, MaxSections), has_pole_cols \in BOOLEAN :
        Start(<<>>, <<>>, [has_pole_cols |-> has_pole_cols, rows |-> rows], <<>>, <<>>)

SpecSection == InitSection /\ [][NextSection]_vars

AttRow(company, measured, tenths) ==
    [company |-> company, measured |-> measured,
     height_in_inches |-> [kind |-> "num", tenths |-> tenths]]

\* rows of an attachment sheet: two power attachments (24 ft, 29 ft) and
\* communication attachments, two of them 0.1 in and two 0.6 in apart
AttachRows ==
    { AttRow("Consumers Energy", "Primary", 2880),
      AttRow(" CONSUMERS ENERGY", "Neutral", 3480),
      AttRow("Comcast", "CATV Com", 3000),
      AttRow("AT&T", "Telco Com", 3001),
      AttRow("Comcast", "CATV Com", 3006),
      AttRow("AT&T", "Telco Com", 3360),
      AttRow("", "CATV Com", 2640),
      AttRow("Fiber Optic Com Co", "", 3120) }

\* the comm outputs of the mapping: all four slots, or only comm1 and comm3
MappedComms == { {1, 2, 3, 4}, {1, 3} }

\* sheets of up to MaxAttach different rows, in any order
InitAttach ==
    \E rows \in SeqUpTo(AttachRows, MaxAttach), mapped_comms \in MappedComms :
        /\ \A i, j \in 1..Len(rows) : i # j => rows[i] # rows[j]
        /\ StartSheets(<<>>, <<>>, NoSections, <<>>, <<>>)
        /\ attachments = [done |-> FALSE, rows |-> rows, mapped_comms |-> mapped_comms,
                          result |-> <<>>]
        /\ scid_call = NoScidCall
        /\ height_call = NoHeightCall
        /\ worker = NoWorker
        /\ row_section = NoRowSection
        /\ NoWindowNorMatchers

SpecAttach == InitAttach /\ [][NextAttach]_vars

\* rows of an attachment sheet for the communication summary: two companies
\* at the same height (25 ft), two more communication rows, a power row
SummaryRows ==
    { AttRow("Comcast", "CATV Com", 3000),
      AttRow("AT&T", "Telco Com", 3000),
      AttRow("Comcast", "CATV Com", 3360),
      AttRow("", "CATV Com", 2640),
      AttRow("Consumers Energy", "Primary", 2880) }

InitSummary ==
    \E rows \in SeqUpTo(SummaryRows, MaxAttach), mapped_comms \in MappedComms :
        /\ \A i, j \in 1..Len(rows) : i # j => rows[i] # rows[j]
        /\ StartSheets(<<>>, <<>>, NoSections, <<>>, <<>>)
        /\ attachments = [done |-> FALSE, rows |-> rows, mapped_comms |-> mapped_comms,
                          result |-> <<>>]
        /\ scid_call = NoScidCall
        /\ height_call = NoHeightCall
        /\ worker = NoWorker
        /\ row_section = NoRowSection
        /\ NoWindowNorMatchers

SpecSummary == InitSummary /\ [][NextAttach]_vars

\* the characters of the identifiers: digits, a letter, the apostrophe, a blank
ScidChars == {"0", "7", "a", "'", " "}

\* config['ignore_scid_keywords']: none, one word, or a keyword with a blank
KeywordLists == { <<>>, <<<<"a">>>>, <<<<"a", " ", "7">>>> }

\* every identifier text of up to MaxScidLen characters
InitScid ==
    \E scid \in SeqUpTo(ScidChars, MaxScidLen), keywords \in KeywordLists :
        /\ StartSheets(<<>>, <<>>, NoSections, <<>>, <<>>)
        /\ attachments = NoAttachments
        /\ scid_call = [NoScidCall EXCEPT !.scid = scid, !.keywords = keywords]
        /\ height_call = NoHeightCall
        /\ worker = NoWorker
        /\ row_section = NoRowSection
        /\ NoWindowNorMatchers

SpecScid == InitScid /\ [][NextScid]_vars

\* str() of a natural number
RECURSIVE StrNat(_)
StrNat(n) ==
    IF n < 10 THEN <<DigitChars[n + 1]>>
    ELSE StrNat(n \div 10) \o <<DigitChars[(n % 10) + 1]>>

\* what is written between the feet mark and the inches in each form
Separators ==
    [hyphen |-> <<"-">>, blank |-> <<" ">>, joined |-> <<>>,
     spaced_hyphen |-> <<" ", "-", " ">>]

\* the text F'<separator>I" of a height of feet and inches
FeetInchesText(form, feet, inches) ==
    [kind |-> "str", form |-> form, feet |-> feet, inches |-> inches,
     text |-> StrNat(feet) \o <<"'">> \o Separators[form] \o StrNat(inches) \o <<"\"">>,
     value |-> 100 * (12 * feet + inches)]

\* the text F'
FeetText(feet) ==
    [kind |-> "str", form |-> "feet", feet |-> feet, inches |-> 0,
     text |-> StrNat(feet) \o <<"'">>, value |-> 1200 * feet]

\* a unit-less decimal of one or two decimals: feet below 50, else inches
DecimalText(whole, frac) ==
    [kind |-> "str", form |-> "decimal", feet |-> 0, inches |-> 0,
     text |-> StrNat(whole) \o <<".">> \o frac,
     value |-> IF whole < 50 THEN 12 * Hundredths(StrNat(whole), frac)
               ELSE Hundredths(StrNat(whole), frac)]

\* a unit-less integer: inches
IntegerText(n) ==
    [kind |-> "str", form |-> "integer", feet |-> 0, inches |-> 0, text |-> StrNat(n),
     value |-> 100 * n]

\* any other text (kind "str") or number (kind "num"); value is the height it
\* denotes, -1 when it is blank, not a number or negative
OtherHeight(kind, text, value) ==
    [kind |-> kind, form |-> "other", feet |-> 0, inches |-> 0, text |-> text,
     value |-> value]

HeightFeet == {0, 5, 24, 55}

HeightInches == {0, 6, 10, 11}

DecimalTexts ==
    { DecimalText(5, <<"5">>), DecimalText(5, <<"8", "3">>), DecimalText(24, <<"2", "5">>),
      DecimalText(49, <<"9", "9">>), DecimalText(50, <<"0">>), DecimalText(55, <<"7">>),
      DecimalText(300, <<"5">>), DecimalText(0, <<"0", "4">>) }

IntegerTexts == { IntegerText(n) : n \in {0, 5, 70, 300} }

\* blank, non-numeric and negative arguments
NoHeights ==
    { NoneHeight,
      OtherHeight("str", <<>>, -1), OtherHeight("str", <<" ">>, -1),
      OtherHeight("str", <<"a", "b", "c">>, -1), OtherHeight("str", <<"-", "1", "0">>, -1),
      OtherHeight("str", <<"-", "5", ".", "5">>, -1),
      OtherHeight("str", <<"-", "5", "'">>, -1),
      OtherHeight("str", <<"-", "0", ".", "0", "4">>, -1),
      OtherHeight("str", <<"i", "n", "f">>, -1),
      OtherHeight("str", <<"-", "i", "n", "f">>, -1),
      OtherHeight("str", <<"n", "a", "n">>, -1),
      OtherHeight("num", <<"-", "1", "0">>, -1), OtherHeight("num", <<"i", "n", "f">>, -1),
      OtherHeight("num", <<"n", "a", "n">>, -1) }

\* other ways of giving a height: .5 feet, 5 inches, 70 inches, the numbers 0 and 70
OtherHeights ==
    { OtherHeight("str", <<".", "5">>, 600), OtherHeight("str", <<"5", "\"">>, 500),
      OtherHeight("str", <<" ", "7", "0", " ">>, 7000),
      OtherHeight("num", <<"0">>, 0), OtherHeight("num", <<"7", "0">>, 7000) }

HeightArguments ==
    { FeetInchesText(form, feet, inches) :
          form \in DOMAIN Separators, feet \in HeightFeet, inches \in HeightInches }
    \cup { FeetText(feet) : feet \in HeightFeet }
    \cup DecimalTexts \cup IntegerTexts \cup NoHeights \cup OtherHeights

\* one call of the codec on each argument
InitHeight ==
    \E height \in HeightArguments :
        /\ StartSheets(<<>>, <<>>, NoSections, <<>>, <<>>)
        /\ attachments = NoAttachments
        /\ scid_call = NoScidCall
        /\ height_call = [NoHeightCall EXCEPT !.height = height]
        /\ worker = NoWorker
        /\ row_section = NoRowSection
        /\ NoWindowNorMatchers

SpecHeight == InitHeight /\ [][NextHeight]_vars

\* the section rows of the lookups of a row: two of connection C1, one of C2
RowSections ==
    { Section("C1", <<"A">>, <<"B">>, <<Ft(30, 0), Ft(24, 0)>>),
      Section("C1", <<"A">>, <<"C">>, <<Inches(288), NoHeight("empty")>>),
      Section("C2", <<"A">>, <<"B">>, <<Ft(28, 0), NoHeight("text")>>) }

\* the connection sheets of the lookups: none, and two orders of the rows
\* n1-n2 (C1), n3-n1 (C2), n1-n3 (C3), n2-n3 (C2)
RowConnections ==
    { <<>>,
      << Conn(NodeIds[1], NodeIds[3], "C3", NumSpan(1000)),
         Conn(NodeIds[2], NodeIds[3], "C2", NumSpan(1000)),
         Conn(NodeIds[1], NodeIds[2], "C1", NumSpan(1000)) >>,
      << Conn(NodeIds[2], NodeIds[3], "C2", NumSpan(1000)),
         Conn(NodeIds[3], NodeIds[1], "C2", NumSpan(1000)),
         Conn(NodeIds[1], NodeIds[2], "C1", NumSpan(1000)),
         Conn(NodeIds[1], NodeIds[3], "C3", NumSpan(1000)) >> }

InitRowSection ==
    \E rows \in SeqUpTo(RowSections, MaxSections), has_pole_cols \in BOOLEAN,
       conns \in RowConnections :
        /\ StartSheets(<<>>, conns, [has_pole_cols |-> has_pole_cols, rows |-> rows],
                       <<>>, <<>>)
        /\ attachments = NoAttachments
        /\ scid_call = NoScidCall
        /\ height_call = NoHeightCall
        /\ worker = NoWorker
        /\ row_section = NoRowSection
        /\ NoWindowNorMatchers

SpecRowSection == InitRowSection /\ [][NextRowSection]_vars

\* company and measured cells: the keyword inside a longer word, as a whole
\* word, in either case, and every text of up to MaxFieldLen characters of
\* a small alphabet
MaxFieldLen == 3

FieldTexts ==
    { <<"S", "E", "A", "T", "T", "L", "E">>,
      <<"S", "e", "a", "t", "t", "l", "e", " ", "C", "i", "t", "y", " ", "L", "i", "g", "h", "t">>,
      <<"A", "T", "T">>,
      <<"a", "t", "t">>,
      <<"A", "T", "&", "T", " ", "a", "t", "t">>,
      <<"m", "y", " ", "a", "t", "t", " ", "l", "i", "n", "e">>,
      <<"C", "O", "M", "M", "O", "N", "W", "E", "A", "L", "T", "H">>,
      <<"c", "o", "m", "m">>,
      <<"T", "e", "l", "c", "o", " ", "C", "o", "m", "m">>,
      <<"R", "e", "c", "o", "m", "m", "e", "n", "d", "e", "d">> }
       \cup SeqUpTo({"a", "t", "T", " "}, MaxFieldLen)

\* configured keywords, in lower and in upper case
KeywordTexts ==
    { <<"A", "T", "T">>,
      <<"a", "t", "t">>,
      <<"c", "o", "m", "m">>,
      <<"C", "O", "M", "M">>,
      <<"t">> }

InitMatcher ==
    \E field \in FieldTexts, keyword \in KeywordTexts :
        /\ StartSheets(<<>>, <<>>, NoSections, <<>>, <<>>)
        /\ attachments = NoAttachments
        /\ scid_call = NoScidCall
        /\ height_call = NoHeightCall
        /\ worker = NoWorker
        /\ row_section = NoRowSection
        /\ telecom_call = NoTelecomCall
        /\ matcher_call = [NoMatcherCall EXCEPT !.field = field, !.keyword = keyword]
        /\ app = NoApp
        /\ qc_load = NoLoad

SpecMatcher == InitMatcher /\ [][NextMatcher]_vars

SurveyRow(company, measured, tenths) ==
    [company |-> company, measured |-> measured,
     height_in_inches |-> [kind |-> "num", tenths |-> tenths]]

\* survey records of a pole: communication records of two providers, a power
\* guy of a provider and one of the power company, a record that is neither
SurveyRows ==
    { SurveyRow(<<"A", "T", "&", "T">>,
                <<"T", "e", "l", "c", "o", " ", "C", "o", "m">>, 2400),
      SurveyRow(<<"A", "T", "&", "T">>,
                <<"P", "o", "w", "e", "r", " ", "G", "u", "y">>, 3000),
      SurveyRow(<<"A", "T", "T", " ", "M", "i", "c", "h", "i", "g", "a", "n">>,
                <<"F", "i", "b", "e", "r", " ", "O", "p", "t", "i", "c", " ", "C", "o", "m">>, 2520),
      SurveyRow(<<"C", "o", "m", "c", "a", "s", "t">>,
                <<"C", "A", "T", "V", " ", "C", "o", "m">>, 2640),
      SurveyRow(<<"C", "o", "n", "s", "u", "m", "e", "r", "s", " ", "E", "n", "e", "r", "g", "y">>,
                <<"P", "o", "w", "e", "r", " ", "G", "u", "y">>, 3200),
      SurveyRow(<<"C", "o", "m", "c", "a", "s", "t">>,
                <<"P", "r", "i", "m", "a", "r", "y">>, 4000) }

MaxSurvey == 3

InitTelecom ==
    \E rows \in SeqUpTo(SurveyRows, MaxSurvey) :
        /\ StartSheets(<<>>, <<>>, NoSections, <<>>, <<>>)
        /\ attachments = NoAttachments
        /\ scid_call = NoScidCall
        /\ height_call = NoHeightCall
        /\ worker = NoWorker
        /\ row_section = NoRowSection
        /\ telecom_call = [NoTelecomCall EXCEPT !.rows = rows]
        /\ matcher_call = NoMatcherCall
        /\ app = NoApp
        /\ qc_load = NoLoad

SpecTelecom == InitTelecom /\ [][NextTelecom]_vars

\* the most sheets of a QC workbook
MaxQCSheets == 2

\* sheets of a QC workbook: tables with no row, with one row, with a row that
\* has no To Pole before a row written '03'; a sheet without the columns; a
\* sheet that cannot be read
QCSheets ==
    { [kind |-> "table", rows |-> <<>>],
      [kind |-> "table",
       rows |-> << [Pole |-> <<"1">>, To_Pole |-> <<"2">>, Span_Length |-> NumSpan(1020)] >>],
      [kind |-> "table",
       rows |-> << [Pole |-> <<"2">>, To_Pole |-> <<" ">>, Span_Length |-> NumSpan(500)],
                   [Pole |-> <<"0", "3">>, To_Pole |-> <<"2", " ">>, Span_Length |-> EmptySpan] >>],
      [kind |-> "other",
       rows |-> << [Pole |-> <<"1">>, To_Pole |-> <<"3">>, Span_Length |-> NumSpan(700)] >>],
      [kind |-> "broken", rows |-> <<>>] }

\* a path with no file, a file that is no workbook, workbooks of up to
\* MaxQCSheets sheets
QCFiles ==
    { NoFile, [exists |-> TRUE, readable |-> FALSE, sheets |-> <<>>] }
        \cup { [exists |-> TRUE, readable |-> TRUE, sheets |-> s] :
                   s \in SeqUpTo(QCSheets, MaxQCSheets) }

\* a reader constructed without a file
InitLoad == Start(<<>>, <<>>, NoSections, <<>>, <<>>)

NextLoad == load_qc_file_call(QCFiles)

SpecLoad == InitLoad /\ [][NextLoad]_vars

\* the window after construction
InitApp == Start(<<>>, <<>>, NoSections, <<>>, <<>>)

SpecApp == InitApp /\ [][NextApp]_vars

\* the threads run on and the UI loop runs its pending callbacks; nothing
\* makes the user click
SpecAppLive ==
    /\ InitApp
    /\ [][NextApp]_vars
    /\ WF_vars(ThreadStep)
    /\ WF_vars(reset_process_button)

\* the connection rows of the runs with a span that cannot be formatted
FaultConns(spans) ==
    << Conn(NodeIds[1], NodeIds[2], "C1", spans[1]),
       Conn(NodeIds[2], NodeIds[3], "C2", spans[2]),
       Conn(NodeIds[2], NodeIds[1], "C3", spans[3]) >>

\* the QC sheets of those runs: none, the pair 1-2, the pairs 3-2 and 1-2
FaultQCSheets ==
    { <<>>,
      << [Pole |-> <<"1">>, To_Pole |-> <<"2">>, Span_Length |-> NumSpan(1020)] >>,
      << [Pole |-> <<"3">>, To_Pole |-> <<"2">>, Span_Length |-> EmptySpan],
         [Pole |-> <<"1">>, To_Pole |-> <<"2">>, Span_Length |-> NumSpan(1020)] >> }

\* poles 1 and 2, pole or reference 3, some of the three connection rows,
\* each with the span 100 or the text 'inf', with or without a QC sheet
InitFault ==
    \E spans \in [1..3 -> {NumSpan(1000), InfSpan}], present \in SUBSET (1..3),
       k3 \in {"pole", "Reference "}, qc_rows \in FaultQCSheets :
        Start(<<Node(NodeIds[1], <<"1">>, "pole", ""), Node(NodeIds[2], <<"2">>, "pole", ""),
                Node(NodeIds[3], <<"3">>, k3, "")>>,
              SelectSeq(FaultConns(spans), LAMBDA c : \E i \in present : ConnIds[i] = c.connection_id),
              NoSections, <<>>, qc_rows)

SpecFault == InitFault /\ [][Next]_vars

\* the worker started on sheets of poles 1 to 4, all of them underground or
\* none, with or without manual routes
InitWorker ==
    \E pole_status \in {"", "Underground"}, use_manual_routes \in BOOLEAN :
    \E segments \in {<<>>} \cup {<<seg>> : seg \in {g \in RouteSegments : use_manual_routes}} :
        /\ StartSheets([i \in 1..4 |-> Node(NodeIds[i], StrInt(<<DigitChars[i + 1]>>),
                                            "pole", pole_status)],
                       BaseConns, NoSections, segments, <<>>)
        /\ attachments = NoAttachments
        /\ scid_call = NoScidCall
        /\ height_call = NoHeightCall
        /\ worker = [NoWorker EXCEPT !.pc = "checkpoints",
                                     !.use_manual_routes = use_manual_routes]
        /\ row_section = NoRowSection
        /\ NoWindowNorMatchers

SpecWorker == InitWorker /\ [][NextWorker]_vars

\* the run of the worker on the sheets of the route tests
Init ==
    \/ InitManual
    \/ InitQC

Spec == Init /\ [][Next]_vars

(***************************************************************************)
(* Properties                                                              *)
(***************************************************************************)
\* process_data has returned its rows without a stop request
ReturnedRows == pc = "returned" /\ ~stop_requested

\* the (Pole, To Pole) texts of a list of rows
Pairs(rows) == [k \in 1..Len(rows) |-> <<rows[k].Pole, rows[k].To_Pole>>]

\* the normalised SCID and the role the nodes sheet gives a node id
SheetScid(node_id) ==
    normalize_scid(nodes_df[CHOOSE i \in 1..Len(nodes_df) : nodes_df[i].node_id = node_id].scid,
                   ignore_scid_keywords)

SheetRole(node_id) ==
    StripLower(nodes_df[CHOOSE i \in 1..Len(nodes_df) : nodes_df[i].node_id = node_id].node_type)

\* the node ids of the rows with role pole or reference and a status other
\* than underground
ValidIds == {nodes_df[i].node_id : i \in {j \in 1..Len(nodes_df) : IsValidNode(nodes_df[j])}}

\* a is b with some elements left out
RECURSIVE IsSubsequence(_, _)
IsSubsequence(a, b) ==
    IF a = <<>> THEN TRUE
    ELSE IF b = <<>> THEN FALSE
    ELSE IF Head(a) = Head(b) THEN IsSubsequence(Tail(a), Tail(b))
    ELSE IsSubsequence(a, Tail(b))

\* C7: once the filtering stretch of process_data has run, process_data has
\* failed if and only if no row of the nodes sheet that is the first of its
\* normalised SCID has role pole or reference and a status other than
\* underground; and a failed run carries the no-valid-data error, has not
\* invoked the 50% checkpoint and has built no mapping, pole record or row.
C7_FailsIffNoValidNode ==
    LET Remains(i) ==
            /\ \A j \in 1..(i - 1) :
                  normalize_scid(nodes_df[j].scid, ignore_scid_keywords)
                      # normalize_scid(nodes_df[i].scid, ignore_scid_keywords)
            /\ StripLower(nodes_df[i].node_type) \in {"pole", "reference"}
            /\ StripLower(nodes_df[i].pole_status) # "underground"
    IN pc # "start" =>
          /\ (pc = "failed") <=> ~(\E i \in 1..Len(nodes_df) : Remains(i))
          /\ pc = "failed" =>
                /\ error.text = "No valid pole or reference data found"
                /\ checkpoints = <<40>>
                /\ mappings = NoMappings
                /\ temp_rows = <<>>
                /\ result_data = <<>>

\* a run that failed although the sheet has a valid row: the row was dropped
\* as the duplicate of an earlier, invalid row of the same normalised SCID
C7_Witness ==
    /\ pc = "failed"
    /\ \E i \in 1..Len(nodes_df) : IsValidNode(nodes_df[i])

\* the valid node set holds at most one node per normalised identifier
OneValidNodePerIdentifier ==
    \A id1, id2 \in mappings.valid_poles :
        mappings.node_id_to_scid[id1] = mappings.node_id_to_scid[id2] => id1 = id2

\* C24: once the filtering stretch of process_data has run, every normalised
\* identifier borne by a row of the nodes sheet with role pole or reference
\* and a status other than underground is the identifier of a node of the
\* valid node set, and that set holds at most one node per identifier.
C24_ValidIdentifierKept ==
    pc # "start" =>
        /\ \A i \in 1..Len(nodes_df) :
              IsValidNode(nodes_df[i]) =>
                 \E id \in mappings.valid_poles :
                    mappings.node_id_to_scid[id]
                       = normalize_scid(nodes_df[i].scid, ignore_scid_keywords)
        /\ OneValidNodePerIdentifier

\* the unordered pairs of different valid nodes joined by a connection row
JoinedPairs ==
    {pair \in SUBSET ValidIds :
        /\ Cardinality(pair) = 2
        /\ \E c \in 1..Len(connections_df) :
              {connections_df[c].node_id_1, connections_df[c].node_id_2} = pair}

\* the positions of the rows of result_data between the two nodes of a pair
RowsOfPair(pair) ==
    {k \in 1..Len(result_data) :
        {result_data[k].Pole, result_data[k].To_Pole} = {SheetScid(id) : id \in pair}}

Directed(rows) ==
    LET pairs == {Pairs(rows)[k] : k \in 1..Len(rows)}
    IN \A c \in 1..Len(connections_df) :
        LET n1 == connections_df[c].node_id_1
            n2 == connections_df[c].node_id_2
            first == \A b \in 1..(c - 1) :
                        {connections_df[b].node_id_1, connections_df[b].node_id_2} # {n1, n2}
        IN (n1 \in ValidIds /\ n2 \in ValidIds /\ n1 # n2 /\ first) =>
              /\ (SheetRole(n1) = "pole" /\ SheetRole(n2) = "reference") =>
                    (<<SheetScid(n1), SheetScid(n2)>> \in pairs
                        /\ <<SheetScid(n2), SheetScid(n1)>> \notin pairs)
              /\ (SheetRole(n1) = "reference" /\ SheetRole(n2) = "pole") =>
                    (<<SheetScid(n2), SheetScid(n1)>> \in pairs
                        /\ <<SheetScid(n1), SheetScid(n2)>> \notin pairs)
              /\ (SheetRole(n1) = "pole" /\ SheetRole(n2) = "pole") =>
                    (<<SheetScid(n1), SheetScid(n2)>> \in pairs
                        /\ <<SheetScid(n2), SheetScid(n1)>> \notin pairs)

\* C9: in the rows process_data returns by automatic routing, and in the
\* tuples of ConnectionProcessor, a connection between a pole and a reference
\* has the pole as Pole and the reference as To Pole whatever the endpoint
\* order of the connection row, and a connection between two poles has
\* node_id_1 as Pole and node_id_2 as To Pole.
C9_ReferenceIsToPole ==
    (~qc_reader.active /\ manual_routes = <<>>) =>
        /\ ReturnedRows => Directed(result_data)
        /\ (cp_result.done /\ pc = "returned") => Directed(cp_result.rows)

\* a connection row listing the reference first, returned as pole -> reference
C9_Witness ==
    /\ ReturnedRows
    /\ cp_result.done
    /\ \E c \in 1..Len(connections_df) :
          /\ connections_df[c].node_id_1 \in ValidIds
          /\ connections_df[c].node_id_2 \in ValidIds
          /\ SheetRole(connections_df[c].node_id_1) = "reference"
          /\ SheetRole(connections_df[c].node_id_2) = "pole"
          /\ \E k \in 1..Len(result_data) :
                Pairs(result_data)[k] = <<SheetScid(connections_df[c].node_id_2),
                                          SheetScid(connections_df[c].node_id_1)>>

\* C1: with a QC reader active, the rows process_data returns and the rows
\* each write_output writes are in QC order: their (Pole, To Pole) texts are
\* the QC pair list with some pairs left out, none moved.
C1_QCOrderEverywhere ==
    qc_reader.active =>
        /\ IsSubsequence(Pairs(result_data), qc_reader.original_ordered_connections)
        /\ written.done =>
              IsSubsequence(Pairs(written.rows), qc_reader.original_ordered_connections)
        /\ og_written.done =>
              IsSubsequence(Pairs(og_written.rows), qc_reader.original_ordered_connections)

\* C2: with a QC reader active, _process_qc_filtered_connections of
\* PoleDataProcessor and of ConnectionProcessor both return one entry per QC
\* pair, the i-th with the literal texts of the i-th pair.
C2_OneEntryPerQCPair ==
    (qc_reader.active /\ pc = "returned") =>
        /\ Pairs(process_qc_filtered_connections(connections_df, mappings, qc_reader))
              = qc_reader.original_ordered_connections
        /\ cp_result.done => Pairs(cp_result.rows) = qc_reader.original_ordered_connections

\* C3: with a QC reader active, the rows process_data returns are the rows
\* it returns on the same sheets without manual routes.
C3_ManualRoutesIgnoredUnderQC ==
    (qc_reader.active /\ ReturnedRows /\ ~written.done) =>
        result_data = ProcessedRows(connections_df, mappings, <<>>, qc_reader)

\* C4: with a QC reader active, for a QC pair with a QC span q whose two
\* poles are joined by a connection row with a survey span s, the Span Length
\* of the row returned for the pair, and of the row written for it, is q if
\* |s - q| <= tolerance and the survey value (as surveyed or as rounded for
\* display) otherwise.
C4_SpanMergedOnce ==
    (qc_reader.active /\ ReturnedRows) =>
        \A i \in 1..Len(qc_reader.qc_data_rows), c \in 1..Len(connections_df) :
            LET q == qc_reader.qc_data_rows[i].Span_Length
                s == connections_df[c].span_distance
                norm == qc_reader.ordered_connections[i]
                n1 == connections_df[c].node_id_1
                n2 == connections_df[c].node_id_2
                expected == IF Abs(s.val - q.val) <= 10 * span_length_tolerance
                            THEN {q.val}
                            ELSE {s.val, format_span_distance(s).val}
                Merged(rows) ==
                    \A k \in 1..Len(rows) :
                        Pairs(rows)[k] = qc_reader.original_ordered_connections[i] =>
                            rows[k].Span_Length.val \in expected
            IN (/\ n1 \in ValidIds /\ n2 \in ValidIds
                /\ {SheetScid(n1), SheetScid(n2)} = {norm[1], norm[2]}
                /\ \A j \in 1..(i - 1) : qc_reader.ordered_connections[j] # norm
                /\ q.form # "empty" /\ s.form # "empty") =>
                  /\ Merged(result_data)
                  /\ written.done => Merged(written.rows)

\* C5: with QC inactive and manual routes given, every row process_data
\* returns has as Pole a pole of a manual route and as To Pole the pole that
\* follows it in that route.
C5_ManualRouteOverrides ==
    (ReturnedRows /\ ~qc_reader.active /\ manual_routes # <<>>) =>
        \A k \in 1..Len(result_data) :
            \E r \in 1..Len(manual_routes) :
                \E j \in 1..(Len(manual_routes[r].poles) - 1) :
                    /\ manual_routes[r].poles[j] = result_data[k].Pole
                    /\ manual_routes[r].poles[j + 1] = result_data[k].To_Pole

\* C6: with QC inactive, when a connection of a manual route names a pole
\* that is no valid node or a pair no connection row joins, process_data past
\* its 50% checkpoint has failed, its error text lists every such connection
\* and it has returned no row.
C6_ErrorListsEveryMissing ==
    LET all == RouteConnections(manual_routes)
        Joined(a, b) ==
            \E c \in 1..Len(connections_df) :
                /\ connections_df[c].node_id_1 \in ValidIds
                /\ connections_df[c].node_id_2 \in ValidIds
                /\ {SheetScid(connections_df[c].node_id_1),
                    SheetScid(connections_df[c].node_id_2)} = {a, b}
        valid_scids == {SheetScid(id) : id \in ValidIds}
        invalid == {i \in 1..Len(all) :
                       \/ all[i][1] \notin valid_scids
                       \/ all[i][2] \notin valid_scids
                       \/ ~Joined(all[i][1], all[i][2])}
    IN (~qc_reader.active /\ invalid # {} /\ pc \notin {"start", "build"}
            /\ ~stop_requested) =>
          /\ pc = "failed"
          /\ result_data = <<>>
          /\ \A i \in invalid : \E l \in 1..Len(error.listed) : error.listed[l] = all[i]

\* C30: when _apply_manual_routes has raised the invalid-route error, the
\* pole records are those built from the connection rows alone: no manual
\* route has changed a To Pole, connection_id or span_distance.
C30_InvalidRoutesChangeNothing ==
    (pc = "failed" /\ error = InvalidManualRoutes) =>
        temp_rows = build_temp_rows(connections_df, mappings, <<>>, qc_reader).temp

\* the route 1-2-3 is valid and listed before an invalid route; pole 1 still
\* leads to pole 4 as the connection rows left it, and pole 3 to pole 4
C30_Witness ==
    /\ pc = "failed"
    /\ error = InvalidManualRoutes
    /\ Len(manual_routes) = 2
    /\ manual_routes[1].poles = << <<"1">>, <<"2">>, <<"3">> >>
    /\ Len(connections_df) = 4
    /\ temp_rows[<<"1">>].To_Pole = <<"4">>
    /\ temp_rows[<<"3">>].To_Pole = <<"4">>

\* C10: a _find_section call returns nothing when no row has the connection
\* id, the row when one has it, and among several the first row of the lowest
\* minimum parseable height, the first row when none has a parseable height.
C10_LowestSectionOfConnection ==
    section_found.done =>
        LET rows == sections_df.rows
            matching == {i \in 1..Len(rows) :
                            rows[i].connection_id = section_found.connection_id}
            parsed == {i \in matching : MinHeight(rows[i]) # Inf}
            lowest == {i \in parsed : \A j \in parsed : MinHeight(rows[i]) <= MinHeight(rows[j])}
            from == IF parsed = {} THEN matching ELSE lowest
        IN section_found.position =
              IF matching = {} THEN 0 ELSE CHOOSE i \in from : \A j \in from : i <= j

\* the row of the i-th QC pair when the QC sheet holds the i-th QC row alone,
\* so that the QC span of the merge is the span of that row
RowOfOwnQCSpan(i) ==
    QCRow(connections_df, mappings, load_qc_file(<<qc_reader.qc_data_rows[i]>>), 1)

\* C28: with a QC reader active, the Span Length of the i-th row returned is
\* the survey span merged with the span of the i-th QC row, also when other
\* QC rows name the same pair.
C28_RowMergedWithOwnQCSpan ==
    (qc_reader.active /\ ReturnedRows /\ manual_routes = <<>> /\ ~written.done) =>
        /\ Len(result_data) = Len(qc_reader.qc_data_rows)
        /\ \A i \in 1..Len(result_data) : result_data[i] = RowOfOwnQCSpan(i)

\* every QC row names a pair that no other QC row names
QCPairsDistinct ==
    \A i, j \in 1..Len(qc_reader.ordered_connections) :
        qc_reader.ordered_connections[i] = qc_reader.ordered_connections[j] => i = j

\* C28 holds when no pair is repeated
OwnQCSpanWithoutRepeats ==
    (qc_reader.active /\ ReturnedRows /\ manual_routes = <<>> /\ ~written.done
        /\ QCPairsDistinct) =>
        \A i \in 1..Len(result_data) : result_data[i] = RowOfOwnQCSpan(i)

(***************************************************************************)
(* Attachments                                                             *)
(***************************************************************************)
\* the heights of all power records of a sheet: power company, power keyword
PowerHeightsOf(rows) ==
    {rows[i].height_in_inches.tenths :
        i \in {j \in 1..Len(rows) : /\ CompanyIsPower(rows[j].company)
                                    /\ MeasuredIsPower(rows[j].measured)
                                    /\ IsNumeric(rows[j].height_in_inches)}}

\* the heights of all communication records of a sheet
CommHeightsOf(rows) ==
    {rows[i].height_in_inches.tenths :
        i \in {j \in 1..Len(rows) : /\ IsComm(rows[j].company, rows[j].measured)
                                    /\ IsNumeric(rows[j].height_in_inches)
                                    /\ rows[j].height_in_inches.tenths > 0}}

SetMax(S) == CHOOSE x \in S : \A y \in S : y <= x

SetMin(S) == CHOOSE x \in S : \A y \in S : x <= y

\* the whole inches a display height shows
DisplayInches(display) == 12 * display.feet + display.inches

\* C11: the Power Height of a pole is the lowest power height, over all power
\* records of the pole, that is not below the highest communication height of
\* the pole, or the lowest power height when none reaches that height
C11_PowerHeightNotBelowComm ==
    attachments.done =>
        LET P == PowerHeightsOf(attachments.rows)
            T == CommHeightsOf(attachments.rows)
            threshold == IF T = {} THEN 0 ELSE SetMax(T)
            valid == {h \in P : h >= threshold}
        IN attachments.result.Power_Height =
              IF P = {} THEN NoDisplay
              ELSE inches_to_feet_whole(
                       (IF valid # {} THEN SetMin(valid) ELSE SetMin(P)) \div 10)

\* the pooled communication heights behind the slots: every entry is a
\* communication height of the sheet, every communication height is within
\* 0.01 ft of an entry, and the entries descend by at least 0.01 ft
PoolIsDeduplicated ==
    LET pool == attachments.result.comm_attach.All_Comm_Heights
        H == CommHeightsOf(attachments.rows)
    IN /\ \A k \in 1..Len(pool) : pool[k].height \in H
       /\ \A h \in H : \E k \in 1..Len(pool) : Abs(pool[k].height - h) * 100 < 120
       /\ \A j, k \in 1..Len(pool) :
             j < k => (pool[j].height - pool[k].height) * 100 >= 120

\* a mapped slot k holds the k-th highest pooled height, or nothing when
\* there are fewer than k
SlotsHoldTopFour ==
    LET pool == attachments.result.comm_attach.All_Comm_Heights
        comm == attachments.result.comm_attach.comm
    IN /\ DOMAIN comm = attachments.mapped_comms
       /\ \A k \in DOMAIN comm :
             comm[k] = IF k <= Len(pool)
                       THEN inches_to_feet_whole(pool[k].height \div 10)
                       ELSE NoDisplay

\* C12 as stated: the slots hold the top four pooled heights and the heights
\* they show are strictly descending
C12_SlotsStrictlyDescending ==
    attachments.done =>
        /\ PoolIsDeduplicated
        /\ SlotsHoldTopFour
        /\ \A j, k \in attachments.mapped_comms :
              (j < k /\ attachments.result.comm_attach.comm[k].shown) =>
                 DisplayInches(attachments.result.comm_attach.comm[j])
                    > DisplayInches(attachments.result.comm_attach.comm[k])

\* C12: the slots hold the top four pooled heights, which are strictly
\* descending; the whole inches the slots show never ascend, and descend
\* strictly when the pooled heights are whole inches
C12_SlotsHoldTopFourDescending ==
    attachments.done =>
        /\ PoolIsDeduplicated
        /\ SlotsHoldTopFour
        /\ \A j, k \in attachments.mapped_comms :
              (j < k /\ attachments.result.comm_attach.comm[k].shown) =>
                 /\ DisplayInches(attachments.result.comm_attach.comm[j])
                       >= DisplayInches(attachments.result.comm_attach.comm[k])
                 /\ (\A h \in CommHeightsOf(attachments.rows) : h % 10 = 0) =>
                       DisplayInches(attachments.result.comm_attach.comm[j])
                          > DisplayInches(attachments.result.comm_attach.comm[k])

\* five pooled heights, given out of order, for four mapped slots
C12_Witness ==
    /\ attachments.done
    /\ attachments.mapped_comms = {1, 2, 3, 4}
    /\ Len(attachments.result.comm_attach.All_Comm_Heights) = 5
    /\ \E i \in 1..(Len(attachments.rows) - 1) :
          /\ IsComm(attachments.rows[i].company, attachments.rows[i].measured)
          /\ IsComm(attachments.rows[i + 1].company, attachments.rows[i + 1].measured)
          /\ attachments.rows[i].height_in_inches.tenths
                < attachments.rows[i + 1].height_in_inches.tenths

\* the communication records of a sheet with a valid positive height
CommRecordsOf(rows) ==
    { i \in 1..Len(rows) : /\ IsComm(rows[i].company, rows[i].measured)
                           /\ IsNumeric(rows[i].height_in_inches)
                           /\ rows[i].height_in_inches.tenths > 0 }

\* C25: All_Comm_Heights has one entry for every communication record of the
\* pole with a valid positive height, naming its height, company and measured
\* text, in descending height order, and Total_Comm_Count is the number of
\* those records
C25_CommSummaryComplete ==
    attachments.done =>
        /\ attachments.result.comm_attach.Total_Comm_Count
              = Cardinality(CommRecordsOf(attachments.rows))
        /\ \A i \in CommRecordsOf(attachments.rows) :
              \E k \in 1..Len(attachments.result.comm_attach.All_Comm_Heights) :
                 attachments.result.comm_attach.All_Comm_Heights[k] = CommEntry(attachments.rows[i])
        /\ \A j, k \in 1..Len(attachments.result.comm_attach.All_Comm_Heights) :
              j < k => attachments.result.comm_attach.All_Comm_Heights[j].height
                          >= attachments.result.comm_attach.All_Comm_Heights[k].height

(***************************************************************************)
(* Identifiers                                                             *)
(***************************************************************************)
\* C13: normalising an already normalised identifier returns it unchanged
C13_NormalizeIdempotent ==
    scid_call.done => scid_call.renormalized = scid_call.normalized

\* C14: QCReader._normalize_scid and Utils.normalize_scid return the same
\* normalised form for every identifier and ignore-keyword list
C14_QCNormalizesAsNodes ==
    scid_call.done => scid_call.qc_normalized = scid_call.normalized

(***************************************************************************)
(* The height codec                                                        *)
(***************************************************************************)
\* the forms of a well-formed height text: F'-I", F' I", F', a unit-less
\* decimal, a unit-less integer
WellFormedForms == {"hyphen", "blank", "feet", "decimal", "integer"}

\* the display text is a height at most one inch from value (hundredths of an inch)
WithinOneInch(display, value) ==
    display.shown /\ Abs(100 * DisplayInches(display) - value) <= 100

\* C15 as stated: for every well-formed height text, parse_height_decimal
\* followed by decimal_feet_to_feet_format, and parse_height_decimal
\* followed by inches_to_feet_format, both give a height at most 1 inch from
\* the height of the text.
C15_RoundTripEitherWay ==
    (height_call.done /\ height_call.height.form \in WellFormedForms) =>
        /\ WithinOneInch(height_call.round_trip, height_call.height.value)
        /\ WithinOneInch(height_call.round_trip_inches, height_call.height.value)

\* C15 amended: for every well-formed height text, parse_height_decimal
\* followed by decimal_feet_to_feet_format gives a height at most 1 inch
\* from the height of the text, and so does inches_to_feet_format on the
\* text itself.
C15_RoundTripWithinOneInch ==
    (height_call.done /\ height_call.height.form \in WellFormedForms) =>
        /\ WithinOneInch(height_call.round_trip, height_call.height.value)
        /\ WithinOneInch(height_call.inches_format, height_call.height.value)

\* 5'-10" went through the codec: 5.83 came back as 5'10", and as 0' 6" from
\* inches_to_feet_format, which read 5.83 as inches
C15_Witness ==
    /\ height_call.done
    /\ height_call.height = FeetInchesText("hyphen", 5, 10)
    /\ height_call.decimal = [ok |-> TRUE, value |-> 583]
    /\ height_call.round_trip = Display(5, 10)
    /\ height_call.round_trip_inches = Display(0, 6)

\* C18: for a blank, non-numeric or negative argument no function of the
\* codec raises, parse_height_decimal returns None, and parse_height_format
\* and inches_to_feet_format return ''.
C18_NoHeightNeverRaisesNorParses ==
    (height_call.done /\ height_call.height.value < 0) =>
        /\ ~height_call.raised
        /\ ~height_call.decimal.ok
        /\ ~height_call.format.shown
        /\ ~height_call.inches_format.shown

\* C19: F' - I" is parsed like F'-I": parse_height_format and
\* parse_height_decimal return for it what they return for F'-I".
C19_SpacedHyphenParsedWithInches ==
    (height_call.done /\ height_call.height.form = "spaced_hyphen") =>
        /\ height_call.format =
              parse_height_format(FeetInchesText("hyphen", height_call.height.feet,
                                                 height_call.height.inches))
        /\ height_call.decimal =
              ParseHeightDecimal(FeetInchesText("hyphen", height_call.height.feet,
                                                height_call.height.inches))

\* C23: whenever parse_height_format and parse_height_decimal both return a
\* value for a height text, the display text and the decimal feet are the
\* same height to within one inch.
C23_FormatAndDecimalAgree ==
    (height_call.done /\ height_call.format.shown /\ height_call.decimal.ok) =>
        Abs(100 * DisplayInches(height_call.format) - 12 * height_call.decimal.value) <= 100

\* the two outputs do agree on the texts with a foot mark and on the
\* unit-less decimals below 50
AgreeOnMarkedHeights ==
    (/\ height_call.done
     /\ height_call.format.shown
     /\ height_call.decimal.ok
     /\ height_call.height.form \in {"hyphen", "blank", "feet", "spaced_hyphen"}) =>
        Abs(100 * DisplayInches(height_call.format) - 12 * height_call.decimal.value) <= 100

(***************************************************************************)
(* Cancellation                                                            *)
(***************************************************************************)
\* progress_callback has answered False to the worker or to process_data
NegativeAnswered == worker.negative # {} \/ stop_requested

\* C16: once progress_callback has answered False at a checkpoint of the
\* worker or of process_data, no later stage runs: process_data goes no
\* further, no output file is generated, nothing is written, and the run
\* is not reported complete.
C16_NothingRunsAfterNegativeResponse ==
    [][NegativeAnswered =>
          /\ pc' = pc
          /\ result_data' = result_data
          /\ written' = written
          /\ worker'.output_file = worker.output_file
          /\ worker'.complete = worker.complete]_vars

(***************************************************************************)
(* Fault isolation                                                         *)
(***************************************************************************)
\* the connections sheet with the cells that make _create_output_row raise
\* left empty
Healthy(conns) ==
    [i \in 1..Len(conns) |->
        IF format_span_raises(conns[i].span_distance)
        THEN [conns[i] EXCEPT !.span_distance = EmptySpan]
        ELSE conns[i]]

\* rows holds the same edges in the same order as healthy, each row as in
\* healthy or with an empty Span Length
SameEdges(rows, healthy) ==
    /\ Len(rows) = Len(healthy)
    /\ \A k \in 1..Len(rows) :
          /\ rows[k].Pole = healthy[k].Pole
          /\ rows[k].To_Pole = healthy[k].To_Pole
          /\ rows[k].Span_Length \in {healthy[k].Span_Length, EmptySpan}

\* C17: when _create_output_row raises for an edge, process_data still
\* returns, and it returns the rows of the run in which nothing raised,
\* the row of the failing edge being there with empty fields; without QC
\* and with QC.
C17_FailingEdgeKept ==
    /\ pc # "failed"
    /\ (ReturnedRows /\ ~written.done) =>
          SameEdges(result_data,
                    ProcessedRows(Healthy(connections_df), mappings, manual_routes,
                                  qc_reader))


\* the section the own connection id of the looked-up edge has, 0 for none
OwnSection ==
    find_section(row_section.connection_id, sections_df, <<"A">>, row_section.to_pole_scid)

\* the section the connection id of connection row i has for the looked-up edge
SectionVia(i) ==
    find_section(connections_df[i].connection_id, sections_df, <<"A">>,
                 row_section.to_pole_scid)

\* the connection rows that touch the pole's node id and whose connection id
\* has a section for the looked-up edge
TouchingWithSection ==
    { i \in 1..Len(connections_df) :
        /\ row_section.pole_node_id \in {Strip(connections_df[i].node_id_1),
                                        Strip(connections_df[i].node_id_2)}
        /\ SectionVia(i) # 0 }

FirstTouchingWithSection ==
    CHOOSE i \in TouchingWithSection : \A j \in TouchingWithSection : i <= j

C20_WitnessBlank ==
    /\ row_section.done
    /\ sections_df.rows # <<>>
    /\ row_section.section.via = "none"
    /\ row_section.pole_node_id # <<>>
    /\ connections_df # <<>>

(***************************************************************************)
(* Telecom attachments of a provider                                       *)
(***************************************************************************)
\* the keyword occurs in the field, ignoring case, between word boundaries
OccursAsWord(field, keyword) ==
    \E i \in 1..(Len(field) - Len(keyword) + 1) :
        /\ \A k \in 1..Len(keyword) : LowerChar(field[i + k - 1]) = LowerChar(keyword[k])
        /\ WordBoundary(field, i - 1)
        /\ WordBoundary(field, i + Len(keyword) - 1)

\* the heights, in tenths of an inch, of the records of a pole whose company
\* cell holds a keyword of provider p as a whole word and whose measured cell
\* holds one of the five patterns
MatchingHeights(rows, p) ==
    { rows[i].height_in_inches.tenths :
        i \in { j \in 1..Len(rows) :
                  /\ \E n \in 1..Len(telecom_keywords[p].keywords) :
                        OccursAsWord(rows[j].company, telecom_keywords[p].keywords[n])
                  /\ measured_regex(rows[j].measured) } }

\* C21: for each provider the result has the heights of exactly the records
\* whose company matches one of its keywords and whose measured text holds one
\* of the five patterns, highest first, with the lowest as height_decimal;
\* there is no attachment when there is no such record
C21_TelecomHeightsOfMatchingRecords ==
    telecom_call.done =>
        \A p \in 1..Len(telecom_keywords) :
            /\ telecom_call.result[p].found = (MatchingHeights(telecom_call.rows, p) # {})
            /\ { telecom_call.result[p].heights[n] :
                    n \in 1..Len(telecom_call.result[p].heights) }
                  = { inches_to_feet_whole(h \div 10) : h \in MatchingHeights(telecom_call.rows, p) }
            /\ \A m, n \in 1..Len(telecom_call.result[p].heights) :
                  m < n => DisplayInches(telecom_call.result[p].heights[m])
                              >= DisplayInches(telecom_call.result[p].heights[n])
            /\ telecom_call.result[p].found =>
                  telecom_call.result[p].height_decimal
                     = SetMin(MatchingHeights(telecom_call.rows, p))

\* on a pole without a power guy record the result is as C21 states
RegularWithoutPowerGuy ==
    telecom_call.done /\ power_guy_rows(telecom_call.rows) = <<>>
        => \A p \in 1..Len(telecom_keywords) :
              /\ telecom_call.result[p].found = (MatchingHeights(telecom_call.rows, p) # {})
              /\ telecom_call.result[p].found =>
                    telecom_call.result[p].height_decimal
                       = SetMin(MatchingHeights(telecom_call.rows, p))

(***************************************************************************)
(* Keyword matching                                                        *)
(***************************************************************************)
\* the keyword occurs in the field, ignoring case, with no letter, digit or
\* underscore next to it on either side
OccursAsWholeWord(field, keyword) ==
    \E i \in 1..(Len(field) - Len(keyword) + 1) :
        /\ \A k \in 1..Len(keyword) : LowerChar(field[i + k - 1]) = LowerChar(keyword[k])
        /\ i > 1 => ~IsWordChar(field[i - 1])
        /\ i + Len(keyword) <= Len(field) => ~IsWordChar(field[i + Len(keyword)])

\* C22: each keyword test of the attachment matcher (communication
\* classification, provider attribution, power company, power keyword, owner
\* of a midspan record) succeeds exactly when the keyword occurs in the field
\* as a whole word, whatever the case of either
C22_WholeWordCaseInsensitive ==
    matcher_call.done =>
        /\ matcher_call.is_comm = OccursAsWholeWord(matcher_call.field, matcher_call.keyword)
        /\ matcher_call.provider = OccursAsWholeWord(matcher_call.field, matcher_call.keyword)
        /\ matcher_call.power_company
              = OccursAsWholeWord(matcher_call.field, matcher_call.keyword)
        /\ matcher_call.power_keyword
              = OccursAsWholeWord(matcher_call.field, matcher_call.keyword)
        /\ matcher_call.telecom_provider
              = OccursAsWholeWord(matcher_call.field, matcher_call.keyword)

\* the one test of the matcher that is whole-word: the power company
PowerCompanyWholeWord ==
    matcher_call.done =>
        matcher_call.power_company = OccursAsWholeWord(matcher_call.field, matcher_call.keyword)

\* the tests by containment find the keyword inside a longer word
SubstringTests ==
    matcher_call.done =>
        /\ matcher_call.provider
              = Contains(Lower(matcher_call.field), Lower(matcher_call.keyword))
        /\ matcher_call.telecom_provider = matcher_call.provider
        /\ matcher_call.power_keyword = matcher_call.provider
        /\ matcher_call.is_comm = Contains(Lower(matcher_call.field), matcher_call.keyword)

(***************************************************************************)
(* Repeated loads of a QC reader                                           *)
(***************************************************************************)
\* the rows of a file that name a Pole and a To Pole, in workbook order
LoadedRows(file) ==
    IF file.exists /\ file.readable
    THEN SelectSeq(AllSheetRows(file.sheets), QCRowKept)
    ELSE <<>>

\* index i of the three lists describes the i-th loaded row of the file
ListsDescribe(reader, rows) ==
    /\ Len(reader.original_ordered_connections) = Len(rows)
    /\ Len(reader.ordered_connections) = Len(rows)
    /\ Len(reader.qc_data_rows) = Len(rows)
    /\ \A i \in 1..Len(rows) :
          /\ reader.original_ordered_connections[i]
                = <<Strip(rows[i].Pole), Strip(rows[i].To_Pole)>>
          /\ reader.ordered_connections[i]
                = <<QC_normalize_scid(Strip(rows[i].Pole), ignore_scid_keywords),
                    QC_normalize_scid(Strip(rows[i].To_Pole), ignore_scid_keywords)>>
          /\ reader.qc_data_rows[i]
                = [Pole |-> Strip(rows[i].Pole), To_Pole |-> Strip(rows[i].To_Pole),
                   Span_Length |-> rows[i].Span_Length]

\* C29: after any sequence of load_qc_file calls on one reader, is_active()
\* holds exactly when the most recent call loaded at least one (Pole, To
\* Pole) pair; a call that fails (missing file, no sheet with both columns,
\* read error) leaves the reader inactive; and in an active reader the lists
\* original_ordered_connections, ordered_connections and qc_data_rows have
\* the same length and index i of each describes the i-th row of that load
C29_ActiveAfterLastLoad ==
    qc_load.calls > 0 =>
        /\ qc_reader.active <=> LoadedRows(qc_load.file) # <<>>
        /\ QCLoadFails(qc_load.file) => ~qc_reader.active
        /\ qc_reader.active => ListsDescribe(qc_reader, LoadedRows(qc_load.file))

\* a reader loaded with two tables, after a load of other rows and a call
\* that failed; and a reader a failed call has left with the rows of the
\* load before
C29_Witness ==
    /\ qc_load.calls = MaxLoads
    /\ qc_reader.active
    /\ SheetsProcessed(qc_load.file) = 2
    /\ Len(qc_reader.qc_data_rows) = 2
    /\ qc_reader.ordered_connections[1] = << <<"3">>, <<"2">> >>

(***************************************************************************)
(* The process button and its workers                                      *)
(***************************************************************************)
\* the threads at work
ThreadsAtWork == {t \in 1..Len(app.threads) : AtWork(app.threads[t])}

\* C26: at most one processing worker is running at any time: process_files
\* never starts a worker while one started before is still at work; and a
\* stop request made while a worker is alive is there for that worker to
\* observe at its next checkpoint, no reset scheduled by an earlier worker
\* having cleared it
C26_OneWorkerAndStopObserved ==
    /\ Cardinality(ThreadsAtWork) <= 1
    /\ \A t \in 1..Len(app.threads) :
          (app.threads[t].stop_asked /\ app.threads[t].pc = "checkpoints")
              => app.stop_processing

IdleButton ==
    /\ app.button = Button("Process Files", "normal")
    /\ ~app.stop_processing

\* C27: every worker run, however it ends, schedules reset_process_button,
\* and after it the process button returns to 'Process Files', enabled,
\* with the stop flag cleared
C27_EveryRunSchedulesReset ==
    /\ \A t \in 1..MaxWorkers :
          (t \in 1..Len(app.threads))
              ~> (t \in 1..Len(app.threads) /\ app.threads[t].scheduled)
    /\ (app.threads # <<>>) ~> IdleButton

\* a worker that ended in another way than by a missing output file has
\* scheduled the reset
ScheduledUnlessNoOutput ==
    \A t \in 1..Len(app.threads) :
        (app.threads[t].pc \in {"returning", "dead"} /\ app.threads[t].how # "no_output")
            => app.threads[t].scheduled

====
